---- MODULE Spec2Model ----
(***************************************************************************)
(* The question validator and the connect_nodes normalizer of              *)
(* tools/editor.py, over Python values as json.load produces them.         *)
(***************************************************************************)
EXTENDS Integers, Sequences, FiniteSets, TLC

VARIABLES
    q,      \* the question record handed to validate_question
    vres,   \* what validate_question did with q (NoResult before the call)
    raw,    \* the raw question handed to _normalize_connect_nodes
    nres,   \* what _normalize_connect_nodes did with raw (NoResult before)
    cn_left,       \* self.cn_left: the left nodes of the connect_nodes editor
    cn_right,      \* self.cn_right
    cn_pairs,      \* self.cn_pairs
    cn_left_sel,   \* the text shown in the left pair selector (cn_left_sel.get())
    cn_right_sel,  \* the text shown in the right pair selector
    next_id,       \* the last call of _cn_next_id: its side, the ids it saw, its result
    course_cmb,               \* the text of the course selector
    topic_cmb,                \* the text of the topic selector
    current_course,           \* self.current_course
    topics_json,              \* the 'topics' of the course's topics.json: its topic ids
    current_topic_relfile,    \* self.current_topic_relfile
    current_topic,            \* self.current_topic: its topic_id and questions
    selected_question_index,  \* self.selected_question_index
    q_list,                   \* the question listbox: its size and curselection
    files,                    \* the topic files on disk, by relative file name
    form,                     \* the question the last handler built from the form, if any
    dialog,                   \* the message box the last handler showed
    handler                   \* the last handler run and the exception it ended with

callVars == <<q, vres, raw, nres>>
cnVars == <<cn_left, cn_right, cn_pairs, cn_left_sel, cn_right_sel, next_id>>
appVars == <<course_cmb, topic_cmb, current_course, topics_json, current_topic_relfile,
             current_topic, selected_question_index, q_list, files, form, dialog, handler>>
vars == <<q, vres, raw, nres, cn_left, cn_right, cn_pairs, cn_left_sel, cn_right_sel, next_id,
          course_cmb, topic_cmb, current_course, topics_json, current_topic_relfile,
          current_topic, selected_question_index, q_list, files, form, dialog, handler>>

\* _cn_next_id not called yet
NoCall == [side |-> "", existing |-> {}, result |-> ""]
\* the connect_nodes editor of an empty question: no nodes, no pairs, nothing
\* chosen in the selectors
CnEmpty ==
    /\ cn_left = <<>> /\ cn_right = <<>> /\ cn_pairs = <<>>
    /\ cn_left_sel = "" /\ cn_right_sel = ""
    /\ next_id = NoCall

NoDialog == [kind |-> "none", title |-> "", text |-> ""]
NoHandler == [name |-> "", exc |-> ""]
\* the application before any course is loaded (__init__, lines 243-248)
AppEmpty ==
    /\ course_cmb = "" /\ topic_cmb = ""
    /\ current_course = [k |-> "none", v |-> "None"]
    /\ topics_json = <<>>
    /\ current_topic_relfile = [k |-> "none", v |-> "None"]
    /\ current_topic = [topic_id |-> "", questions |-> <<>>]
    /\ selected_question_index = [k |-> "none", v |-> "None"]
    /\ q_list = [size |-> 0, sel |-> [k |-> "none", v |-> "None"]]
    /\ files = <<>>
    /\ form = [k |-> "none", v |-> "None"]
    /\ dialog = NoDialog
    /\ handler = NoHandler

(***************************************************************************)
(* Python values: a kind tag k and a payload v.  A str is a TLA+ string,   *)
(* a list a sequence of values, a dict a function from its keys to values. *)
(***************************************************************************)
None == [k |-> "none", v |-> "None"]
PyStr(s) == [k |-> "str", v |-> s]
PyInt(n) == [k |-> "int", v |-> n]
PyBool(b) == [k |-> "bool", v |-> b]
PyList(s) == [k |-> "list", v |-> s]
PyDict(f) == [k |-> "dict", v |-> f]
EmptyDict == PyDict(<<>>)

\* bool(x)
Truthy(x) ==
    CASE x.k = "none" -> FALSE
      [] x.k = "str"  -> x.v # ""
      [] x.k = "int"  -> x.v # 0
      [] x.k = "bool" -> x.v
      [] x.k = "list" -> Len(x.v) > 0
      [] x.k = "dict" -> DOMAIN x.v # {}

\* key in d, d.get(key)
Has(d, key) == key \in DOMAIN d.v
Get(d, key) == IF Has(d, key) THEN d.v[key] ELSE None

\* a or b
Or(a, b) == IF Truthy(a) THEN a ELSE b

\* isinstance(x, int): bool is a subclass of int
IsInstanceInt(x) == x.k \in {"int", "bool"}
\* the number a Python int or bool compares as (True == 1, False == 0)
IntVal(x) == IF x.k = "bool" THEN (IF x.v THEN 1 ELSE 0) ELSE x.v

\* str(x) of a scalar
Str(x) ==
    CASE x.k = "str"  -> x.v
      [] x.k = "int"  -> ToString(x.v)
      [] x.k = "bool" -> (IF x.v THEN "True" ELSE "False")
      [] x.k = "none" -> "None"

\* s.strip(): leading and trailing blanks removed
RECURSIVE LStrip(_)
LStrip(s) ==
    IF Len(s) > 0 /\ SubSeq(s, 1, 1) = " " THEN LStrip(SubSeq(s, 2, Len(s))) ELSE s
RECURSIVE RStrip(_)
RStrip(s) ==
    IF Len(s) > 0 /\ SubSeq(s, Len(s), Len(s)) = " "
    THEN RStrip(SubSeq(s, 1, Len(s) - 1)) ELSE s
Strip(s) == RStrip(LStrip(s))

\* the items a for loop over x visits; only str, list and dict are iterable
RECURSIVE SetToSeq(_)
SetToSeq(S) ==
    IF S = {} THEN <<>>
    ELSE LET e == CHOOSE e \in S : TRUE IN <<e>> \o SetToSeq(S \ {e})
Iterable(x) == x.k \in {"str", "list", "dict"}
ItemsOf(x) ==
    CASE x.k = "list" -> x.v
      [] x.k = "str"  -> [i \in 1..Len(x.v) |-> PyStr(SubSeq(x.v, i, i))]
      [] x.k = "dict" -> [i \in 1..Cardinality(DOMAIN x.v) |->
                             PyStr(SetToSeq(DOMAIN x.v)[i])]

\* sorted(xs) of a sequence of numbers
RECURSIVE Insert(_, _)
Insert(n, s) ==
    IF s = <<>> THEN <<n>>
    ELSE IF n <= Head(s) THEN <<n>> \o s
    ELSE <<Head(s)>> \o Insert(n, Tail(s))
RECURSIVE Sorted(_)
Sorted(s) == IF s = <<>> THEN <<>> ELSE Insert(Head(s), Sorted(Tail(s)))

\* list(range(n))
Range(n) == [i \in 1..n |-> i - 1]

\* what a call did: returned a value, or raised
NoResult == [ret |-> "none", ok |-> FALSE, msg |-> ""]
Ret(ok, msg) == [ret |-> "return", ok |-> ok, msg |-> msg]
Raise(exc) == [ret |-> "raise", ok |-> FALSE, msg |-> exc]

(***************************************************************************)
(* validate_question                                                       *)
(***************************************************************************)
\* mutant: acceptance without the reason 'OK'
OK_without_reason == Ret(TRUE, "")

OK == Ret(TRUE, "OK")

base_required == <<"id", "type", "question">>

\* mutant: the base fields checked in the reverse order
FirstMissing_reversed(qq) ==
    LET bad == {i \in 1..Len(base_required) : ~Truthy(Get(qq, base_required[i]))}
    IN IF bad = {} THEN ""
       ELSE base_required[CHOOSE i \in bad : \A j \in bad : i >= j]

\* the first base field k with `not q.get(k)`, "" when there is none
FirstMissing(qq) ==
    LET bad == {i \in 1..Len(base_required) : ~Truthy(Get(qq, base_required[i]))}
    IN IF bad = {} THEN ""
       ELSE base_required[CHOOSE i \in bad : \A j \in bad : i <= j]

\* (q.get('explanation') or ''), the receiver of .strip()
ExplanationOrEmpty(qq) == Or(Get(qq, "explanation"), PyStr(""))
\* mutant: the explanation text not stripped
has_text_expl_unstripped(qq) == ExplanationOrEmpty(qq).v # ""
has_text_expl(qq) == Strip(ExplanationOrEmpty(qq).v) # ""
has_image_expl(qq) == Truthy(Get(qq, "explanation_image"))

\* mutant: any integer taken for a boolean
validate_true_false_any_int(qq) ==
    IF ~Has(qq, "correct") \/ ~IsInstanceInt(qq.v["correct"])
    THEN Ret(FALSE, "true_false requires boolean \"correct\"")
    ELSE OK

validate_true_false(qq) ==
    IF ~Has(qq, "correct") \/ qq.v["correct"].k # "bool"
    THEN Ret(FALSE, "true_false requires boolean \"correct\"")
    ELSE OK

\* mutant: the index compared with <= len(options)
validate_mc_single_off_by_one(qq) ==
    LET options == Get(qq, "options")
        correct == Get(qq, "correct")
    IN IF options.k # "list" \/ Len(options.v) < 2
       THEN Ret(FALSE, "mc_single requires options[] (>=2)")
       ELSE IF ~IsInstanceInt(correct)
               \/ ~(0 <= IntVal(correct) /\ IntVal(correct) <= Len(options.v))
       THEN Ret(FALSE, "mc_single requires numeric correct index")
       ELSE OK

validate_mc_single(qq) ==
    LET options == Get(qq, "options")
        correct == Get(qq, "correct")
    IN IF options.k # "list" \/ Len(options.v) < 2
       THEN Ret(FALSE, "mc_single requires options[] (>=2)")
       ELSE IF ~IsInstanceInt(correct)
               \/ ~(0 <= IntVal(correct) /\ IntVal(correct) < Len(options.v))
       THEN Ret(FALSE, "mc_single requires numeric correct index")
       ELSE OK

\* mutant: an index equal to len(options) let through
validate_mc_multi_off_by_one(qq) ==
    LET options == Get(qq, "options")
        corr == Get(qq, "correct")
    IN IF options.k # "list" \/ Len(options.v) < 2
       THEN Ret(FALSE, "mc_multi requires options[] (>=2)")
       ELSE IF corr.k # "list" \/ ~(\A i \in 1..Len(corr.v) : IsInstanceInt(corr.v[i]))
       THEN Ret(FALSE, "mc_multi requires array of correct indices")
       ELSE IF \E i \in 1..Len(corr.v) :
                  IntVal(corr.v[i]) < 0 \/ IntVal(corr.v[i]) > Len(options.v)
       THEN Ret(FALSE, "mc_multi: correct indices out of range")
       ELSE OK

validate_mc_multi(qq) ==
    LET options == Get(qq, "options")
        corr == Get(qq, "correct")
    IN IF options.k # "list" \/ Len(options.v) < 2
       THEN Ret(FALSE, "mc_multi requires options[] (>=2)")
       ELSE IF corr.k # "list" \/ ~(\A i \in 1..Len(corr.v) : IsInstanceInt(corr.v[i]))
       THEN Ret(FALSE, "mc_multi requires array of correct indices")
       ELSE IF \E i \in 1..Len(corr.v) :
                  IntVal(corr.v[i]) < 0 \/ IntVal(corr.v[i]) >= Len(options.v)
       THEN Ret(FALSE, "mc_multi: correct indices out of range")
       ELSE OK

validate_fill_text(qq) ==
    LET answers == Get(qq, "answers")
    IN IF answers.k # "list" \/ Len(answers.v) = 0
       THEN Ret(FALSE, "fill_text requires answers[]")
       ELSE OK

validate_fill_table(qq) ==
    LET table == Or(Get(qq, "table"), EmptyDict)
    IN IF table.k # "dict" THEN Raise("AttributeError")   \* table.get
       ELSE LET ans == Get(table, "answers")
            IN IF ans.k # "list" \/ ~(\A i \in 1..Len(ans.v) : ans.v[i].k = "list")
               THEN Ret(FALSE, "fill_table requires table.answers as 2D array")
               ELSE OK

\* mutant: the permutation check left out
validate_sort_no_permutation_check(qq) ==
    LET items == Get(qq, "items")
        corr == Get(qq, "correct")
    IN IF items.k # "list" \/ Len(items.v) < 2
       THEN Ret(FALSE, "sort requires items[] (>=2)")
       ELSE IF corr.k # "list" \/ ~(\A i \in 1..Len(corr.v) : IsInstanceInt(corr.v[i]))
       THEN Ret(FALSE, "sort requires correct[] as array of indices (0..n-1)")
       ELSE LET n == Len(items.v)
                vals == [i \in 1..Len(corr.v) |-> IntVal(corr.v[i])]
            IN IF Len(corr.v) # n
               THEN Ret(FALSE, "sort correct[] must have the same length as items[]")
               ELSE IF \E i \in 1..Len(vals) : vals[i] < 0 \/ vals[i] >= n
               THEN Ret(FALSE, "sort: correct indices out of range")
               ELSE OK

validate_sort(qq) ==
    LET items == Get(qq, "items")
        corr == Get(qq, "correct")
    IN IF items.k # "list" \/ Len(items.v) < 2
       THEN Ret(FALSE, "sort requires items[] (>=2)")
       ELSE IF corr.k # "list" \/ ~(\A i \in 1..Len(corr.v) : IsInstanceInt(corr.v[i]))
       THEN Ret(FALSE, "sort requires correct[] as array of indices (0..n-1)")
       ELSE LET n == Len(items.v)
                vals == [i \in 1..Len(corr.v) |-> IntVal(corr.v[i])]
            IN IF Len(corr.v) # n
               THEN Ret(FALSE, "sort correct[] must have the same length as items[]")
               ELSE IF \E i \in 1..Len(vals) : vals[i] < 0 \/ vals[i] >= n
               THEN Ret(FALSE, "sort: correct indices out of range")
               ELSE IF Sorted(vals) # Range(n)
               THEN Ret(FALSE, "sort: correct[] must contain each index 0..n-1 exactly once (a permutation)")
               ELSE OK

\* [str(n.get('id')) for n in nodes if isinstance(n, dict) and 'id' in n]
RECURSIVE NodeIds(_)
NodeIds(nodes) ==
    IF nodes = <<>> THEN <<>>
    ELSE LET n == Head(nodes)
         IN (IF n.k = "dict" /\ Has(n, "id") THEN <<Str(Get(n, "id"))>> ELSE <<>>)
            \o NodeIds(Tail(nodes))

SeqSet(s) == {s[i] : i \in 1..Len(s)}

\* mutant: only the right side checked for reuse
RECURSIVE ValidatePairs_right_only(_, _, _, _, _)
ValidatePairs_right_only(prs, lset, rset, usedL, usedR) ==
    IF prs = <<>> THEN OK
    ELSE LET pr == Head(prs)
         IN IF pr.k # "dict" \/ ~Has(pr, "leftId") \/ ~Has(pr, "rightId")
            THEN Ret(FALSE, "connect_nodes: each pair must be {leftId,rightId}")
            ELSE LET L == Str(pr.v["leftId"])
                     R == Str(pr.v["rightId"])
                 IN IF L \notin lset \/ R \notin rset
                    THEN Ret(FALSE, "connect_nodes: pair references unknown node id")
                    ELSE IF R \in usedR
                    THEN Ret(FALSE, "connect_nodes: one-to-one mapping violated (duplicate left or right)")
                    ELSE ValidatePairs_right_only(Tail(prs), lset, rset,
                                                  usedL \cup {L}, usedR \cup {R})

\* the loop over pairs, from the pair at the head of prs on
RECURSIVE ValidatePairs(_, _, _, _, _)
ValidatePairs(prs, lset, rset, usedL, usedR) ==
    IF prs = <<>> THEN OK
    ELSE LET pr == Head(prs)
         IN IF pr.k # "dict" \/ ~Has(pr, "leftId") \/ ~Has(pr, "rightId")
            THEN Ret(FALSE, "connect_nodes: each pair must be {leftId,rightId}")
            ELSE LET L == Str(pr.v["leftId"])
                     R == Str(pr.v["rightId"])
                 IN IF L \notin lset \/ R \notin rset
                    THEN Ret(FALSE, "connect_nodes: pair references unknown node id")
                    ELSE IF L \in usedL \/ R \in usedR
                    THEN Ret(FALSE, "connect_nodes: one-to-one mapping violated (duplicate left or right)")
                    ELSE ValidatePairs(Tail(prs), lset, rset,
                                       usedL \cup {L}, usedR \cup {R})

validate_connect_nodes(qq) ==
    LET left == Or(Get(qq, "leftNodes"), PyList(<<>>))
        right == Or(Get(qq, "rightNodes"), PyList(<<>>))
        pairs == Or(Get(qq, "correctPairs"), PyList(<<>>))
    IN IF left.k # "list" \/ right.k # "list"
       THEN Ret(FALSE, "connect_nodes requires leftNodes[] and rightNodes[]")
       ELSE LET left_ids == NodeIds(left.v)
                right_ids == NodeIds(right.v)
            IN IF Cardinality(SeqSet(left_ids)) # Len(left_ids)
               THEN Ret(FALSE, "connect_nodes: duplicate left node IDs")
               ELSE IF Cardinality(SeqSet(right_ids)) # Len(right_ids)
               THEN Ret(FALSE, "connect_nodes: duplicate right node IDs")
               ELSE IF ~Iterable(pairs) THEN Raise("TypeError")   \* for pr in pairs
               ELSE ValidatePairs(ItemsOf(pairs), SeqSet(left_ids), SeqSet(right_ids),
                                  {}, {})

\* mutant: a type outside the seven passes
validate_by_type_open(qq) ==
    LET t == Get(qq, "type")
    IN CASE t = PyStr("true_false")    -> validate_true_false(qq)
         [] t = PyStr("mc_single")     -> validate_mc_single(qq)
         [] t = PyStr("mc_multi")      -> validate_mc_multi(qq)
         [] t = PyStr("fill_text")     -> validate_fill_text(qq)
         [] t = PyStr("fill_table")    -> validate_fill_table(qq)
         [] t = PyStr("sort")          -> validate_sort(qq)
         [] t = PyStr("connect_nodes") -> validate_connect_nodes(qq)
         [] OTHER                      -> OK

\* the dispatch on q.get('type')
validate_by_type(qq) ==
    LET t == Get(qq, "type")
    IN CASE t = PyStr("true_false")    -> validate_true_false(qq)
         [] t = PyStr("mc_single")     -> validate_mc_single(qq)
         [] t = PyStr("mc_multi")      -> validate_mc_multi(qq)
         [] t = PyStr("fill_text")     -> validate_fill_text(qq)
         [] t = PyStr("fill_table")    -> validate_fill_table(qq)
         [] t = PyStr("sort")          -> validate_sort(qq)
         [] t = PyStr("connect_nodes") -> validate_connect_nodes(qq)
         [] OTHER                      -> Ret(FALSE, "Unknown type: " \o Str(t))

validate_question(qq) ==
    IF FirstMissing(qq) # ""
    THEN Ret(FALSE, "Missing field: " \o FirstMissing(qq))
    ELSE IF ExplanationOrEmpty(qq).k # "str" THEN Raise("AttributeError")   \* .strip()
    ELSE IF ~(has_text_expl(qq) \/ has_image_expl(qq))
    THEN Ret(FALSE, "Provide either explanation text or explanation_image (or both)")
    ELSE validate_by_type(qq)

(***************************************************************************)
(* _normalize_connect_nodes                                                *)
(***************************************************************************)
NormRet(x) == [ret |-> "return", val |-> x]
NormDoc(left_nodes, right_nodes, norm_pairs) ==
    PyDict(("leftNodes" :> PyList(left_nodes)) @@ ("rightNodes" :> PyList(right_nodes))
           @@ ("correctPairs" :> PyList(norm_pairs)))

\* f"{prefix}{idx}"
GenId(prefix, idx) == prefix \o ToString(idx)

\* mutant: an id is allocated for every item, whatever id it carries
FirstNodeId_always_allocated(item, prefix, idx) == GenId(prefix, idx)

\* mutant: the prefix put before the id an object carries
FirstNodeId_prefixed(item, prefix, idx) ==
    IF item.k = "dict" /\ Truthy(Get(item, "id"))
    THEN prefix \o Str(Get(item, "id"))
    ELSE GenId(prefix, idx)

\* nid before the uniqueness loop
FirstNodeId(item, prefix, idx) ==
    IF item.k = "dict"
    THEN Str(Or(Get(item, "id"), PyStr(GenId(prefix, idx))))
    ELSE GenId(prefix, idx)

\* lbl
NodeLabel(item) ==
    IF item.k = "dict" THEN Str(Or(Get(item, "label"), PyStr(""))) ELSE Str(item)

\* mutant: the id taken without looking at the ids already given
UniqueId_unchecked(nid, idx, seen, prefix) == <<nid, idx>>

\* while nid in seen: idx += 1; nid = f"{prefix}{idx}"   (gives <<nid, idx>>)
RECURSIVE UniqueId(_, _, _, _)
UniqueId(nid, idx, seen, prefix) ==
    IF nid \in seen THEN UniqueId(GenId(prefix, idx + 1), idx + 1, seen, prefix)
    ELSE <<nid, idx>>

\* the loop of to_nodes from the item at the head of items on
RECURSIVE ToNodesLoop(_, _, _, _, _)
ToNodesLoop(items, prefix, out, seen, idx) ==
    IF items = <<>> THEN out
    ELSE LET item == Head(items)
             u == UniqueId(FirstNodeId(item, prefix, idx), idx, seen, prefix)
             node == PyDict(("id" :> PyStr(u[1])) @@ ("label" :> PyStr(NodeLabel(item))))
         IN ToNodesLoop(Tail(items), prefix, Append(out, node), seen \cup {u[1]}, u[2] + 1)

to_nodes(arr, prefix) == ToNodesLoop(ItemsOf(arr), prefix, <<>>, {}, 1)

\* x[0] of a truthy x: the exception it raises, "" when it raises none
SubscriptError(x) ==
    CASE x.k \in {"list", "str"} -> ""
      [] x.k = "dict"            -> "KeyError"
      [] OTHER                   -> "TypeError"

\* mutant: the first node carrying a label wins
LabelToId_first_wins(nodes) ==
    LET labels == {Strip(Or(Get(nodes[i], "label"), PyStr("")).v) : i \in 1..Len(nodes)}
    IN [lab \in labels |->
          LET at == {i \in 1..Len(nodes) :
                         Strip(Or(Get(nodes[i], "label"), PyStr("")).v) = lab}
          IN nodes[CHOOSE i \in at : \A j \in at : i <= j].v["id"]]

\* { (n.get('label') or '').strip(): n['id'] for n in nodes }: a later node
\* replaces an earlier one under the same key
LabelToId(nodes) ==
    LET labels == {Strip(Or(Get(nodes[i], "label"), PyStr("")).v) : i \in 1..Len(nodes)}
    IN [lab \in labels |->
          LET at == {i \in 1..Len(nodes) :
                         Strip(Or(Get(nodes[i], "label"), PyStr("")).v) = lab}
          IN nodes[CHOOSE i \in at : \A j \in at : i >= j].v["id"]]

\* mutant: the pair's label looked up as written
Lookup_unstripped(map, x) == IF Str(x) \in DOMAIN map THEN map[Str(x)] ELSE None

\* label_to_id.get(str(x).strip())
Lookup(map, x) == IF Strip(Str(x)) \in DOMAIN map THEN map[Strip(Str(x))] ELSE None

\* the loop over pairs from the pair at the head of prs on
RECURSIVE NormPairs(_, _, _)
NormPairs(prs, l_label_to_id, r_label_to_id) ==
    IF prs = <<>> THEN <<>>
    ELSE LET pr == Head(prs)
             rest == NormPairs(Tail(prs), l_label_to_id, r_label_to_id)
         IN IF pr.k = "dict" /\ Has(pr, "leftId") /\ Has(pr, "rightId")
            THEN <<PyDict(("leftId" :> PyStr(Str(pr.v["leftId"])))
                          @@ ("rightId" :> PyStr(Str(pr.v["rightId"]))))>> \o rest
            ELSE IF pr.k = "dict" /\ Has(pr, "left") /\ Has(pr, "right")
            THEN LET lid == Lookup(l_label_to_id, pr.v["left"])
                     rid == Lookup(r_label_to_id, pr.v["right"])
                 IN IF Truthy(lid) /\ Truthy(rid)
                    THEN <<PyDict(("leftId" :> lid) @@ ("rightId" :> rid))>> \o rest
                    ELSE rest
            ELSE rest

normalize_connect_nodes(qq) ==
    IF ~Truthy(qq) THEN NormRet(NormDoc(<<>>, <<>>, <<>>))
    ELSE LET left == Or(Get(qq, "leftNodes"), PyList(<<>>))
             right == Or(Get(qq, "rightNodes"), PyList(<<>>))
             pairs == Or(Get(qq, "correctPairs"), PyList(<<>>))
         IN IF Truthy(left) /\ SubscriptError(left) # ""    \* left[0]
            THEN Raise(SubscriptError(left))
            ELSE IF Truthy(right) /\ SubscriptError(right) # ""    \* right[0]
            THEN Raise(SubscriptError(right))
            ELSE LET left_nodes == IF Truthy(left) THEN to_nodes(left, "l") ELSE <<>>
                     right_nodes == IF Truthy(right) THEN to_nodes(right, "r") ELSE <<>>
                 IN IF ~Iterable(pairs) THEN Raise("TypeError")    \* for pr in pairs
                    ELSE NormRet(NormDoc(left_nodes, right_nodes,
                                         NormPairs(ItemsOf(pairs), LabelToId(left_nodes),
                                                   LabelToId(right_nodes))))

(***************************************************************************)
(* Bounds and building blocks of the question records.                     *)
(***************************************************************************)
MaxLen == 3       \* longest correct[] list
MaxIndex == 2     \* indices range over -1..MaxIndex
MaxOptions == 3   \* longest options[] / items[] list
MaxNodes == 2     \* longest leftNodes / rightNodes list
MaxPairs == 2     \* longest correctPairs list

SeqsUpTo(S, n) == UNION {[1..m -> S] : m \in 0..n}
ListsUpTo(S, n) == {PyList(s) : s \in SeqsUpTo(S, n)}

\* a key that may be missing, or hold one of vals
Opt(key, vals) == {<<>>} \cup {key :> x : x \in vals}
Fields(id, ty, qu, ex, im) ==
    {a @@ b @@ c @@ d @@ e : a \in Opt("id", id), b \in Opt("type", ty),
                             c \in Opt("question", qu), d \in Opt("explanation", ex),
                             e \in Opt("explanation_image", im)}

TypeNames == {"true_false", "mc_single", "mc_multi", "fill_text", "fill_table",
              "sort", "connect_nodes"}

\* id, type, question and an explanation text present
GoodBase(t) ==
    ("id" :> PyStr("q1")) @@ ("type" :> PyStr(t)) @@ ("question" :> PyStr("Q?"))
    @@ ("explanation" :> PyStr("why"))

Ints == {PyInt(i) : i \in -1..MaxIndex}
IndexElems == Ints \cup {PyBool(TRUE), PyBool(FALSE), PyStr("0")}
StringLists == {PyList([i \in 1..m |-> PyStr(ToString(i))]) : m \in 0..MaxOptions}

TableAnswers ==
    {None, PyStr("ab"), PyInt(5), PyList(<<>>), PyList(<<PyList(<<>>)>>),
     PyList(<<PyStr("4")>>),
     PyList(<<PyList(<<PyStr("4")>>), PyList(<<PyStr("2"), PyStr("2")>>)>>),
     PyList(<<PyList(<<PyStr("4")>>), PyStr("2")>>)}

Node(id, label) == PyDict(("id" :> id) @@ ("label" :> PyStr(label)))
Pair(l, r) == PyDict(("leftId" :> l) @@ ("rightId" :> r))
LegacyPair(l, r) == PyDict(("left" :> PyStr(l)) @@ ("right" :> PyStr(r)))

LeftNodeChoices ==
    {Node(PyStr("l1"), "A"), Node(PyStr("l2"), "B"), Node(PyInt(1), "C"),
     PyDict("label" :> PyStr("D")), PyStr("A")}
RightNodeChoices == {Node(PyStr("r1"), "X"), Node(PyStr("r2"), "Y")}
PairChoices ==
    {Pair(l, r) : l \in {PyStr("l1"), PyStr("l2"), PyStr("1"), PyInt(1)},
                  r \in {PyStr("r1"), PyStr("r2")}}
    \cup {LegacyPair("A", "X"), PyDict("leftId" :> PyStr("l1")), PyStr("x")}
\* node lists the longer pair lists are tried on
LeftLists ==
    {<<Node(PyStr("l1"), "A"), Node(PyStr("l2"), "B")>>,
     <<Node(PyStr("l1"), "A"), Node(PyStr("l1"), "B")>>,
     <<Node(PyStr("l1"), "A"), Node(PyInt(1), "C")>>}
RightLists ==
    {<<Node(PyStr("r1"), "X"), Node(PyStr("r2"), "Y")>>, <<Node(PyStr("r1"), "X")>>}

\* q is a dict of the given fields
IsQuestion(f) == q = PyDict(f)

(***************************************************************************)
(* The question records the validator is run on: records with every        *)
(* combination of missing, empty and present base fields and explanations, *)
(* and, per type, well-formed and malformed payloads.                      *)
(***************************************************************************)
BaseQuestion ==
    \E f \in Fields({None, PyStr(""), PyStr("q1")},
                    {PyStr(""), PyInt(7), PyStr("essay"), PyStr("true_false"),
                     PyStr("sort"), PyStr("fill_table")},
                    {PyStr(""), PyStr("Q?")},
                    {None, PyStr(""), PyStr("  "), PyStr("why"), PyStr(" why "),
                     PyInt(0), PyInt(5), PyList(<<PyStr("why")>>)},
                    {None, PyStr(""), PyStr("e.png")}) :
        \E c \in Opt("correct", {PyBool(TRUE)}) : IsQuestion(f @@ c)

TrueFalseQuestion ==
    \E c \in Opt("correct", {PyBool(TRUE), PyBool(FALSE), PyInt(0), PyInt(1),
                             PyStr("true"), None}) :
        IsQuestion(GoodBase("true_false") @@ c)

\* options[] with correct (mc_single, mc_multi), items[] with correct[] (sort)
IndexedQuestion(t, key) ==
    \E o \in Opt(key, StringLists \cup {None, PyStr("ab")}) :
        \/ \E c \in Opt("correct", IndexElems \cup {None, PyStr("01")}) :
              IsQuestion(GoodBase(t) @@ o @@ c)
        \/ \E m \in 0..MaxLen : \E s \in [1..m -> IndexElems] :
              IsQuestion(GoodBase(t) @@ o @@ ("correct" :> PyList(s)))

FillTextQuestion ==
    \E a \in Opt("answers", StringLists \cup {None, PyStr("a"), PyInt(5)}) :
        IsQuestion(GoodBase("fill_text") @@ a)

FillTableQuestion ==
    \/ \E t \in Opt("table", {None, PyStr("ab"), PyInt(5), PyList(<<PyStr("4")>>)}) :
          IsQuestion(GoodBase("fill_table") @@ t)
    \/ \E a \in Opt("answers", TableAnswers) :
          IsQuestion(GoodBase("fill_table") @@ ("table" :> PyDict(a)))

\* every shape of node lists with at most one pair
ConnectNodesQuestion ==
    \E l \in Opt("leftNodes", ListsUpTo(LeftNodeChoices, MaxNodes) \cup {None, PyStr("ab")}),
       r \in Opt("rightNodes", ListsUpTo(RightNodeChoices, MaxNodes) \cup {PyInt(5)}),
       p \in Opt("correctPairs", ListsUpTo(PairChoices, 1)) :
        IsQuestion(GoodBase("connect_nodes") @@ l @@ r @@ p)

\* every shape of correctPairs over a few node lists
ConnectPairsQuestion ==
    \E l \in LeftLists, r \in RightLists :
        LET nodes == GoodBase("connect_nodes") @@ ("leftNodes" :> PyList(l))
                     @@ ("rightNodes" :> PyList(r))
        IN \/ \E p \in Opt("correctPairs", {None, PyInt(5), PyBool(TRUE), PyStr("ab"),
                                            PyDict("leftId" :> PyStr("l1"))}) :
                 IsQuestion(nodes @@ p)
           \/ \E m \in 0..MaxPairs : \E s \in [1..m -> PairChoices] :
                 IsQuestion(nodes @@ ("correctPairs" :> PyList(s)))

InitQuestion ==
    \/ BaseQuestion
    \/ TrueFalseQuestion
    \/ IndexedQuestion("mc_single", "options")
    \/ IndexedQuestion("mc_multi", "options")
    \/ IndexedQuestion("sort", "items")
    \/ FillTextQuestion
    \/ FillTableQuestion
    \/ ConnectNodesQuestion
    \/ ConnectPairsQuestion

(***************************************************************************)
(* The validator applied to one question.                                  *)
(***************************************************************************)
Init ==
    /\ InitQuestion
    /\ vres = NoResult
    /\ raw = None
    /\ nres = NoResult
    /\ CnEmpty
    /\ AppEmpty

Validate ==
    /\ vres = NoResult
    /\ vres' = validate_question(q)
    /\ UNCHANGED <<q, raw, nres>>
    /\ UNCHANGED cnVars
    /\ UNCHANGED appVars

Next == Validate

Spec == Init /\ [][Next]_vars

(***************************************************************************)
(* The raw questions the normalizer is run on: canonical documents,        *)
(* legacy documents (labels for nodes, label pairs), and documents with    *)
(* missing, mixed or malformed fields.                                     *)
(***************************************************************************)
IsRaw(f) == raw = PyDict(f)
Doc(l, r, p) ==
    ("leftNodes" :> PyList(l)) @@ ("rightNodes" :> PyList(r)) @@ ("correctPairs" :> PyList(p))

CanonicalLeft ==
    {Node(PyStr("l1"), "A"), Node(PyStr("l2"), "B"), Node(PyStr("x"), " A "),
     Node(PyStr(""), "A"), Node(PyStr("l2"), "")}
CanonicalRight == {Node(PyStr("r1"), "X"), Node(PyStr("r2"), "Y")}
CanonicalPairs == {Pair(PyStr(l), PyStr(r)) : l \in {"l1", "x"}, r \in {"r1", "r2"}}
CanonicalRaw ==
    \E a \in 0..MaxNodes, b \in 0..MaxNodes, c \in 0..MaxPairs :
        \E l \in [1..a -> CanonicalLeft], r \in [1..b -> CanonicalRight],
           p \in [1..c -> CanonicalPairs] : IsRaw(Doc(l, r, p))

LegacyLeft == {PyStr("A"), PyStr("B"), PyStr(" A"), PyStr("")}
LegacyRight == {PyStr("X"), PyStr("Y")}
LegacyPairs ==
    {LegacyPair("A", "X"), LegacyPair("B", "Y"), LegacyPair(" A ", "X"),
     LegacyPair("Z", "X"), LegacyPair("A", "Z")}
LegacyRaw ==
    \E a \in 0..MaxNodes, b \in 0..MaxNodes, c \in 0..MaxPairs :
        \E l \in [1..a -> LegacyLeft], r \in [1..b -> LegacyRight],
           p \in [1..c -> LegacyPairs] : IsRaw(Doc(l, r, p))

MixedItems ==
    {PyStr("A"), Node(PyStr("l1"), "B"), Node(PyStr("l2"), "C"), Node(PyInt(7), "E"),
     PyDict("label" :> PyStr("D")), PyDict("id" :> PyStr("l1")), PyInt(5), None}
MalformedNodes == {None, PyInt(5), PyBool(TRUE), PyStr("AB"), PyDict("a" :> PyStr("A"))}
MixedPairs ==
    {None, PyInt(5), PyStr("ab"), PyDict("leftId" :> PyStr("l1")),
     PyList(<<LegacyPair("A", "X")>>), PyList(<<Pair(PyStr("l1"), PyInt(1))>>),
     PyList(<<PyStr("x"), PyDict("leftId" :> PyStr("l1")), LegacyPair("B", "X")>>)}
MixedRaw ==
    \E r \in Opt("rightNodes", {PyList(<<PyStr("X")>>), PyInt(5), PyStr("XY")}),
       p \in Opt("correctPairs", MixedPairs) :
        \/ \E l \in Opt("leftNodes", MalformedNodes) : IsRaw(l @@ r @@ p)
        \/ \E a \in 0..MaxNodes : \E l \in [1..a -> MixedItems] :
              IsRaw(("leftNodes" :> PyList(l)) @@ r @@ p)

InitRaw == raw = None \/ CanonicalRaw \/ LegacyRaw \/ MixedRaw

(***************************************************************************)
(* The normalizer applied to one raw question.                             *)
(***************************************************************************)
InitNormalize ==
    /\ InitRaw
    /\ nres = NoResult
    /\ q = None
    /\ vres = NoResult
    /\ CnEmpty
    /\ AppEmpty

Normalize ==
    /\ nres = NoResult
    /\ nres' = normalize_connect_nodes(raw)
    /\ UNCHANGED <<raw, q, vres>>
    /\ UNCHANGED cnVars
    /\ UNCHANGED appVars

NextNormalize == Normalize

SpecNormalize == InitNormalize /\ [][NextNormalize]_vars

(***************************************************************************)
(* The connect_nodes editor: the nodes and pairs being edited and the two  *)
(* pair selectors.  A node is {'id', 'label'}, a pair {'leftId','rightId'}, *)
(* all of them strings.                                                    *)
(***************************************************************************)
CnNode(id, label) == [id |-> id, label |-> label]
CnPair(lid, rid) == [leftId |-> lid, rightId |-> rid]

\* the separator between id and label in a selector entry (a dash in blanks)
SelSep == " - "
\* f"{n['id']} - {n['label']}"
SelText(n) == n.id \o SelSep \o n.label
\* refresh_pair_selects: the entries a selector offers
SelValues(nodes) == {SelText(nodes[i]) : i \in 1..Len(nodes)}

\* str.split(sep, 1)[0]
BeforeFirst(s, sep) ==
    LET at == {i \in 1..(Len(s) - Len(sep) + 1) : SubSeq(s, i, i + Len(sep) - 1) = sep}
    IN IF at = {} THEN s
       ELSE SubSeq(s, 1, (CHOOSE i \in at : \A j \in at : i <= j) - 1)
\* parse_id; None is given as "", which `not lid` treats alike
parse_id(val) == IF val = "" THEN "" ELSE Strip(BeforeFirst(val, SelSep))

SidePrefix(side) == IF side = "left" THEN "l" ELSE "r"
SideNodes(side) == IF side = "left" THEN cn_left ELSE cn_right
ExistingIds(nodes) == {nodes[i].id : i \in 1..Len(nodes)}

\* mutant: the candidate after the number of nodes, whatever their ids
CnNextIdFrom_by_count(prefix, existing, i) == prefix \o ToString(Cardinality(existing) + 1)

\* the loop of _cn_next_id from candidate i on
RECURSIVE CnNextIdFrom(_, _, _)
CnNextIdFrom(prefix, existing, i) ==
    IF (prefix \o ToString(i)) \notin existing THEN prefix \o ToString(i)
    ELSE CnNextIdFrom(prefix, existing, i + 1)

cn_next_id(side, nodes) == CnNextIdFrom(SidePrefix(side), ExistingIds(nodes), 1)

\* what the user types in the label dialog: cancel (None), blanks, a label
Cancelled == "<cancel>"
LabelAnswers == {Cancelled, "  ", " A "}

\* _cn_add_node(side)
AddedNode(side, label) == CnNode(cn_next_id(side, SideNodes(side)), Strip(label))
CnAddNode(side) ==
    /\ Len(SideNodes(side)) < MaxNodes
    /\ \E label \in LabelAnswers :
          IF label = Cancelled \/ Strip(label) = ""
          THEN UNCHANGED <<cn_left, cn_right, next_id>>
          ELSE /\ next_id' = [side |-> side, existing |-> ExistingIds(SideNodes(side)),
                              result |-> cn_next_id(side, SideNodes(side))]
               /\ IF side = "left"
                  THEN cn_left' = Append(cn_left, AddedNode(side, label))
                       /\ UNCHANGED cn_right
                  ELSE cn_right' = Append(cn_right, AddedNode(side, label))
                       /\ UNCHANGED cn_left
    /\ UNCHANGED <<cn_pairs, cn_left_sel, cn_right_sel>>
    /\ UNCHANGED callVars
    /\ UNCHANGED appVars

RemoveAt(s, idx) == SubSeq(s, 1, idx - 1) \o SubSeq(s, idx + 1, Len(s))
\* [p for p in s if Keep(p)]
RECURSIVE WithoutLeft(_, _)
WithoutLeft(ps, nid) ==
    IF ps = <<>> THEN <<>>
    ELSE (IF Head(ps).leftId # nid THEN <<Head(ps)>> ELSE <<>>) \o WithoutLeft(Tail(ps), nid)
RECURSIVE WithoutRight(_, _)
WithoutRight(ps, nid) ==
    IF ps = <<>> THEN <<>>
    ELSE (IF Head(ps).rightId # nid THEN <<Head(ps)>> ELSE <<>>) \o WithoutRight(Tail(ps), nid)

\* _cn_delete_node(side) with the list entry idx selected (0: none selected)
CnDeleteNode(side) ==
    /\ \E idx \in 0..Len(SideNodes(side)) :
          IF idx = 0 THEN UNCHANGED <<cn_left, cn_right, cn_pairs>>
          ELSE IF side = "left"
          THEN /\ cn_left' = RemoveAt(cn_left, idx)
               /\ cn_pairs' = WithoutLeft(cn_pairs, cn_left[idx].id)
               /\ UNCHANGED cn_right
          ELSE /\ cn_right' = RemoveAt(cn_right, idx)
               /\ cn_pairs' = WithoutRight(cn_pairs, cn_right[idx].id)
               /\ UNCHANGED cn_left
    /\ UNCHANGED <<cn_left_sel, cn_right_sel, next_id>>
    /\ UNCHANGED callVars
    /\ UNCHANGED appVars

\* the user picks an entry of a pair selector; the text stays until the next pick
CnPick(side) ==
    /\ IF side = "left"
       THEN (\E v \in SelValues(cn_left) : cn_left_sel' = v) /\ UNCHANGED cn_right_sel
       ELSE (\E v \in SelValues(cn_right) : cn_right_sel' = v) /\ UNCHANGED cn_left_sel
    /\ UNCHANGED <<cn_left, cn_right, cn_pairs, next_id>>
    /\ UNCHANGED callVars
    /\ UNCHANGED appVars

\* _cn_add_pair
CnAddPair ==
    LET lid == parse_id(cn_left_sel)
        rid == parse_id(cn_right_sel)
    IN /\ IF lid = "" \/ rid = "" THEN UNCHANGED cn_pairs
          ELSE cn_pairs' = Append(WithoutRight(WithoutLeft(cn_pairs, lid), rid),
                                  CnPair(lid, rid))
       /\ UNCHANGED <<cn_left, cn_right, cn_left_sel, cn_right_sel, next_id>>
       /\ UNCHANGED callVars
       /\ UNCHANGED appVars

\* _cn_remove_pair with the list entry idx selected (0: none selected)
CnRemovePair ==
    /\ \E idx \in 0..Len(cn_pairs) :
          IF idx = 0 THEN UNCHANGED cn_pairs
          ELSE cn_pairs' = RemoveAt(cn_pairs, idx)
    /\ UNCHANGED <<cn_left, cn_right, cn_left_sel, cn_right_sel, next_id>>
    /\ UNCHANGED callVars
    /\ UNCHANGED appVars

\* one call of _cn_next_id(side) on node lists as a loaded question gives them
IdPool(side) == IF side = "left" THEN {"l1", "l2", "l3", "x", "r1"} ELSE {"r1", "r2", "r3", "l1"}
NodeLists(side) ==
    {nodes \in UNION {[1..n -> {CnNode(id, "A") : id \in IdPool(side)}] : n \in 0..MaxNodes} :
        \A i, j \in 1..Len(nodes) : i # j => nodes[i].id # nodes[j].id}
InitNextId ==
    /\ cn_left \in NodeLists("left") /\ cn_right \in NodeLists("right")
    /\ cn_pairs = <<>> /\ cn_left_sel = "" /\ cn_right_sel = ""
    /\ next_id = NoCall
    /\ q = None /\ vres = NoResult /\ raw = None /\ nres = NoResult
    /\ AppEmpty

CnNextId(side) ==
    /\ next_id = NoCall
    /\ next_id' = [side |-> side, existing |-> ExistingIds(SideNodes(side)),
                   result |-> cn_next_id(side, SideNodes(side))]
    /\ UNCHANGED <<cn_left, cn_right, cn_pairs, cn_left_sel, cn_right_sel>>
    /\ UNCHANGED callVars
    /\ UNCHANGED appVars

NextNextId == \E side \in {"left", "right"} : CnNextId(side)

SpecNextId == InitNextId /\ [][NextNextId]_vars

InitCn ==
    /\ CnEmpty
    /\ q = None /\ vres = NoResult /\ raw = None /\ nres = NoResult
    /\ AppEmpty

NextCn ==
    \/ \E side \in {"left", "right"} : CnAddNode(side)
    \/ \E side \in {"left", "right"} : CnDeleteNode(side)
    \/ \E side \in {"left", "right"} : CnPick(side)
    \/ CnAddPair
    \/ CnRemovePair

SpecCn == InitCn /\ [][NextCn]_vars

(***************************************************************************)
(* The editor session: one course with its topics, the topic being edited, *)
(* the question list and the topic files on disk.                          *)
(***************************************************************************)
MaxQuestions == 2   \* save_question appends up to this many questions

CourseId == "c1"
RelFile(tid) == "topic/" \o tid \o ".json"     \* f"topic/{tid}.json"
TopicIds == {"t1", "t2"}

\* a topic file that does not exist, and one holding topic_data
NoFile == [exists |-> FALSE, topic_id |-> "", questions |-> <<>>]
FileOf(topic_data) ==
    [exists |-> TRUE, topic_id |-> topic_data.topic_id, questions |-> topic_data.questions]

\* load_topic_file(course_id, rel_file)
load_topic_file(rel_file) ==
    IF ~files[rel_file].exists THEN [topic_id |-> "", questions |-> <<>>]
    ELSE [topic_id |-> files[rel_file].topic_id, questions |-> files[rel_file].questions]

\* os.path.isfile: the image files the user can point at
ImageFiles == {"/p/e.png"}
\* os.path.basename
Basename(path) ==
    LET at == {i \in 1..Len(path) : SubSeq(path, i, i) = "/"}
    IN IF at = {} THEN path
       ELSE SubSeq(path, (CHOOSE i \in at : \A j \in at : i >= j) + 1, Len(path))
\* mutant: the empty path returned for a file that was copied
copy_image_into_course_pathless(topic_id, src_path) ==
    IF src_path \in ImageFiles THEN "" ELSE src_path

\* copy_image_into_course(course_id, topic_id, src_path): the path it returns
copy_image_into_course(topic_id, src_path) ==
    IF src_path = "" THEN ""
    ELSE IF src_path \notin ImageFiles THEN src_path
    ELSE topic_id \o "/" \o Basename(src_path)

\* refresh_question_list: the listbox rebuilt, the selection dropped
RefreshedList(topic) == [size |-> Len(topic.questions), sel |-> None]

\* mutant: the index kept when the list is rebuilt
SelectionRefreshed_kept(index) == index

\* refresh_question_list, its last statement: the selected_question_index it
\* leaves, whatever the index was
SelectionRefreshed(index) == None

Showed(kind, title, text) == [kind |-> kind, title |-> title, text |-> text]
Ran(name) == [name |-> name, exc |-> ""]
Failed(name, exc) == [name |-> name, exc |-> exc]

\* on_topic_change with tid in the topic selector: the topic it loads
LoadedTopic(tid) ==
    LET t == load_topic_file(RelFile(tid))
    IN [topic_id |-> IF t.topic_id = "" THEN tid ELSE t.topic_id, questions |-> t.questions]

\* on_topic_change: the user picks a topic of the course
OnTopicChange ==
    /\ \E i \in 1..Len(topics_json) :
          /\ topic_cmb' = topics_json[i]
          /\ current_topic_relfile' = PyStr(RelFile(topics_json[i]))
          /\ current_topic' = LoadedTopic(topics_json[i])
          /\ q_list' = RefreshedList(LoadedTopic(topics_json[i]))
    /\ selected_question_index' = SelectionRefreshed(selected_question_index)
    /\ handler' = Ran("on_topic_change")
    /\ dialog' = NoDialog
    /\ form' = None
    /\ UNCHANGED <<course_cmb, current_course, topics_json, files>>
    /\ UNCHANGED callVars
    /\ UNCHANGED cnVars

\* on_course_change: the user picks the course
OnCourseChange ==
    /\ course_cmb = CourseId
    /\ current_course' = PyStr(CourseId)
    /\ IF topics_json # <<>>
       THEN /\ topic_cmb' = topics_json[1]
            /\ current_topic_relfile' = PyStr(RelFile(topics_json[1]))
            /\ current_topic' = LoadedTopic(topics_json[1])
            /\ q_list' = RefreshedList(LoadedTopic(topics_json[1]))
       ELSE /\ topic_cmb' = ""
            /\ current_topic_relfile' = None
            /\ current_topic' = [topic_id |-> "", questions |-> <<>>]
            /\ q_list' = [size |-> 0, sel |-> None]
    /\ selected_question_index' = SelectionRefreshed(selected_question_index)
    /\ handler' = Ran("on_course_change")
    /\ dialog' = NoDialog
    /\ form' = None
    /\ UNCHANGED <<course_cmb, topics_json, files>>
    /\ UNCHANGED callVars
    /\ UNCHANGED cnVars

\* new_topic_dialog, create(): the user types a topic id
NewTopic ==
    /\ Truthy(current_course)
    /\ \E typed \in {"", " t1 ", "t2"} :
          LET tid == Strip(typed)
          IN IF tid = ""
             THEN /\ dialog' = Showed("error", "Error", "Topic ID required")
                  /\ UNCHANGED <<topics_json, topic_cmb, current_topic_relfile, current_topic,
                                 selected_question_index, q_list>>
             ELSE IF \E i \in 1..Len(topics_json) : topics_json[i] = tid
             THEN /\ dialog' = Showed("error", "Error", "Topic ID already exists")
                  /\ UNCHANGED <<topics_json, topic_cmb, current_topic_relfile, current_topic,
                                 selected_question_index, q_list>>
             ELSE /\ topics_json' = Append(topics_json, tid)
                  /\ topic_cmb' = tid
                  /\ current_topic_relfile' = PyStr(RelFile(tid))
                  /\ current_topic' = [topic_id |-> tid, questions |-> <<>>]
                  /\ selected_question_index' = SelectionRefreshed(selected_question_index)
                  /\ q_list' = [size |-> 0, sel |-> None]
                  /\ dialog' = NoDialog
    /\ handler' = Ran("new_topic")
    /\ form' = None
    /\ UNCHANGED <<course_cmb, current_course, files>>
    /\ UNCHANGED callVars
    /\ UNCHANGED cnVars

\* f'Question #{i+1} ({q.get("id")}): {msg}' for the question at position i (from 1)
ValidationError(i, qq, msg) ==
    Showed("error", "Validation Error",
           "Question #" \o ToString(i) \o " (" \o Str(Get(qq, "id")) \o "): " \o msg)

\* the loop of save_topic_file from position i on: the first position whose
\* question is not accepted, 0 when every question is accepted
RECURSIVE FirstNotAccepted(_, _)
FirstNotAccepted(questions, i) ==
    IF i > Len(questions) THEN 0
    ELSE IF validate_question(questions[i]) = OK THEN FirstNotAccepted(questions, i + 1)
    ELSE i

\* save_topic_file
SaveTopicFile ==
    /\ IF ~Truthy(current_course) \/ ~Truthy(current_topic_relfile)
       THEN /\ dialog' = Showed("error", "Error", "Select or create a topic first")
            /\ handler' = Ran("save_topic_file")
            /\ UNCHANGED files
       ELSE LET bad == FirstNotAccepted(current_topic.questions, 1)
            IN IF bad = 0
               THEN /\ files' = [files EXCEPT ![current_topic_relfile.v] = FileOf(current_topic)]
                    /\ dialog' = Showed("info", "Saved", "Saved " \o current_topic_relfile.v)
                    /\ handler' = Ran("save_topic_file")
               ELSE LET r == validate_question(current_topic.questions[bad])
                    IN IF r.ret = "raise"
                       THEN /\ handler' = Failed("save_topic_file", r.msg)
                            /\ dialog' = NoDialog
                            /\ UNCHANGED files
                       ELSE /\ dialog' = ValidationError(bad, current_topic.questions[bad], r.msg)
                            /\ handler' = Ran("save_topic_file")
                            /\ UNCHANGED files
    /\ UNCHANGED <<course_cmb, topic_cmb, current_course, topics_json, current_topic_relfile,
                   current_topic, selected_question_index, q_list>>
    /\ form' = None
    /\ UNCHANGED callVars
    /\ UNCHANGED cnVars

\* on_select_question: the listbox selection changed to entry idx, or to none
OnSelectQuestion ==
    /\ \E sel \in {None} \cup {PyInt(i) : i \in 0..(q_list.size - 1)} :
          /\ q_list' = [q_list EXCEPT !.sel = sel]
          /\ selected_question_index' = sel
          /\ handler' = IF sel # None /\ sel.v >= Len(current_topic.questions)
                        THEN Failed("on_select_question", "IndexError")
                        ELSE Ran("on_select_question")
    /\ dialog' = NoDialog
    /\ UNCHANGED <<course_cmb, topic_cmb, current_course, topics_json, current_topic_relfile,
                   current_topic, files>>
    /\ form' = None
    /\ UNCHANGED callVars
    /\ UNCHANGED cnVars

\* _search_in_list: the first matching entry becomes the listbox selection
SearchInList ==
    /\ \E i \in 0..(q_list.size - 1) : q_list' = [q_list EXCEPT !.sel = PyInt(i)]
    /\ handler' = Ran("_search_in_list")
    /\ dialog' = NoDialog
    /\ UNCHANGED <<course_cmb, topic_cmb, current_course, topics_json, current_topic_relfile,
                   current_topic, selected_question_index, files>>
    /\ form' = None
    /\ UNCHANGED callVars
    /\ UNCHANGED cnVars

\* add_question
AddQuestion ==
    /\ selected_question_index' = None
    /\ handler' = Ran("add_question")
    /\ dialog' = NoDialog
    /\ UNCHANGED <<course_cmb, topic_cmb, current_course, topics_json, current_topic_relfile,
                   current_topic, q_list, files>>
    /\ form' = None
    /\ UNCHANGED callVars
    /\ UNCHANGED cnVars

\* delete_question; the user answers the confirmation with yes or no
DeleteQuestion ==
    /\ \E yes \in BOOLEAN :
          IF q_list.sel = None \/ ~yes
          THEN /\ handler' = Ran("delete_question")
               /\ UNCHANGED <<current_topic, selected_question_index, q_list>>
          ELSE IF q_list.sel.v >= Len(current_topic.questions)
          THEN /\ handler' = Failed("delete_question", "IndexError")
               /\ UNCHANGED <<current_topic, selected_question_index, q_list>>
          ELSE LET left == [current_topic EXCEPT
                               !.questions = RemoveAt(current_topic.questions, q_list.sel.v + 1)]
               IN /\ current_topic' = left
                  /\ selected_question_index' = SelectionRefreshed(selected_question_index)
                  /\ q_list' = RefreshedList(left)
                  /\ handler' = Ran("delete_question")
    /\ dialog' = NoDialog
    /\ form' = None
    /\ UNCHANGED <<course_cmb, topic_cmb, current_course, topics_json, current_topic_relfile,
                   files>>
    /\ UNCHANGED callVars
    /\ UNCHANGED cnVars

\* the questions build_question_from_form builds: id, type, question and
\* explanation are stripped strings, a true_false question has a boolean correct
FormQuestion(id, question, explanation, image) ==
    PyDict(("id" :> PyStr(id)) @@ ("type" :> PyStr("true_false"))
           @@ ("question" :> PyStr(question)) @@ ("explanation" :> PyStr(explanation))
           @@ (IF image = "" THEN <<>> ELSE ("explanation_image" :> PyStr(image)))
           @@ ("correct" :> PyBool(TRUE)))
FormQuestions ==
    {FormQuestion("q1", "Q?", "", "/p/e.png"), FormQuestion("", "Q?", "why", "")}

\* mutant: the question always appended
Upserted_always_appended(questions, index, stored) == Append(questions, stored)

\* the upsert of save_question: the question list it leaves
Upserted(questions, index, stored) ==
    IF index # None THEN [questions EXCEPT ![index.v + 1] = stored]
    ELSE Append(questions, stored)

\* q['image'], q['explanation_image'] rewritten to the copies' paths
WithCopiedImage(qq, key, topic_id) ==
    IF Truthy(Get(qq, key))
    THEN PyDict([qq.v EXCEPT ![key] = PyStr(copy_image_into_course(topic_id, qq.v[key].v))])
    ELSE qq
Stored(qq, topic_id) ==
    WithCopiedImage(WithCopiedImage(qq, "image", topic_id), "explanation_image", topic_id)

\* save_question with the question fq built from the form
SaveQuestion ==
    /\ \E fq \in FormQuestions :
          IF ~Truthy(current_course)
          THEN /\ dialog' = Showed("error", "Error", "Select a course")
               /\ handler' = Ran("save_question")
               /\ form' = None
               /\ UNCHANGED <<current_topic, selected_question_index, q_list>>
          ELSE IF topic_cmb = ""
          THEN /\ dialog' = Showed("error", "Error", "Select or create a topic")
               /\ handler' = Ran("save_question")
               /\ form' = None
               /\ UNCHANGED <<current_topic, selected_question_index, q_list>>
          ELSE LET r == validate_question(fq)
                   topic_id == IF current_topic.topic_id # "" THEN current_topic.topic_id
                               ELSE topic_cmb
                   stored == Stored(fq, topic_id)
               IN /\ form' = fq
                  /\ IF r.ret = "raise"
                     THEN /\ handler' = Failed("save_question", r.msg)
                          /\ dialog' = NoDialog
                          /\ UNCHANGED <<current_topic, selected_question_index, q_list>>
                     ELSE IF ~r.ok
                     THEN /\ dialog' = Showed("error", "Validation error", r.msg)
                          /\ handler' = Ran("save_question")
                          /\ UNCHANGED <<current_topic, selected_question_index, q_list>>
                     ELSE IF selected_question_index # None
                             /\ selected_question_index.v >= Len(current_topic.questions)
                     THEN /\ handler' = Failed("save_question", "IndexError")
                          /\ dialog' = NoDialog
                          /\ UNCHANGED <<current_topic, selected_question_index, q_list>>
                     ELSE /\ selected_question_index = None
                             => Len(current_topic.questions) < MaxQuestions
                          /\ current_topic' =
                                [current_topic EXCEPT
                                    !.questions = Upserted(current_topic.questions,
                                                           selected_question_index, stored)]
                          /\ selected_question_index' =
                                SelectionRefreshed(
                                    IF selected_question_index # None
                                    THEN selected_question_index
                                    ELSE PyInt(Len(current_topic.questions)))
                          /\ q_list' = [size |-> Len(Upserted(current_topic.questions,
                                                              selected_question_index, stored)),
                                        sel |-> None]
                          /\ dialog' = Showed("info", "Saved",
                                "Question " \o Str(Get(stored, "id"))
                                \o " saved to topic (not yet written to file). "
                                \o "Click \"Save Topic File\" to write JSON.")
                          /\ handler' = Ran("save_question")
    /\ UNCHANGED <<course_cmb, topic_cmb, current_course, topics_json, current_topic_relfile,
                   files>>
    /\ UNCHANGED callVars
    /\ UNCHANGED cnVars

\* questions as topic files hold them: an accepted one, a rejected one (no
\* correct) and one whose explanation is a number
FileQuestion(id, extra) ==
    PyDict(("id" :> PyStr(id)) @@ ("type" :> PyStr("true_false"))
           @@ ("question" :> PyStr("Q?")) @@ extra)
FileAccepted == FileQuestion("f1", ("explanation" :> PyStr("why")) @@ ("correct" :> PyBool(FALSE)))
FileRejected == FileQuestion("f2", ("explanation" :> PyStr("why")))
FileRaising == FileQuestion("f3", ("explanation" :> PyInt(5)) @@ ("correct" :> PyBool(TRUE)))
\* the contents of topic/t1.json the session is started on
TopicFiles ==
    {NoFile} \cup
    {[exists |-> TRUE, topic_id |-> "t1", questions |-> qs] :
        qs \in {<<FileAccepted>>, <<FileAccepted, FileRejected>>,
                <<FileRejected, FileRejected>>, <<FileRaising, FileRejected>>}}

\* __init__: populate_courses picks the first course and its first topic
InitApp ==
    /\ q = None /\ vres = NoResult /\ raw = None /\ nres = NoResult
    /\ CnEmpty
    /\ files \in {[f \in {RelFile(t) : t \in TopicIds} |->
                      IF f = RelFile("t1") THEN t1 ELSE NoFile] : t1 \in TopicFiles}
    /\ \E courses \in {<<>>, <<CourseId>>}, topics \in {<<>>, <<"t1">>} :
          /\ form = None /\ dialog = NoDialog /\ handler = NoHandler
          /\ selected_question_index = None
          /\ IF courses = <<>>
             THEN /\ course_cmb = "" /\ topic_cmb = ""
                  /\ current_course = None /\ topics_json = <<>>
                  /\ current_topic_relfile = None
                  /\ current_topic = [topic_id |-> "", questions |-> <<>>]
                  /\ q_list = [size |-> 0, sel |-> None]
             ELSE /\ course_cmb = CourseId
                  /\ current_course = PyStr(CourseId)
                  /\ topics_json = topics
                  /\ IF topics = <<>>
                     THEN /\ topic_cmb = ""
                          /\ current_topic_relfile = None
                          /\ current_topic = [topic_id |-> "", questions |-> <<>>]
                          /\ q_list = [size |-> 0, sel |-> None]
                     ELSE /\ topic_cmb = "t1"
                          /\ current_topic_relfile = PyStr(RelFile("t1"))
                          /\ current_topic = LoadedTopic("t1")
                          /\ q_list = RefreshedList(LoadedTopic("t1"))

NextApp ==
    \/ OnCourseChange
    \/ OnTopicChange
    \/ NewTopic
    \/ SaveTopicFile
    \/ OnSelectQuestion
    \/ SearchInList
    \/ AddQuestion
    \/ DeleteQuestion
    \/ SaveQuestion

SpecApp == InitApp /\ [][NextApp]_vars


(***************************************************************************)
(* Vocabulary of the claims about the validator.                           *)
(***************************************************************************)
Validated == vres.ret # "none"
Rejected(msg) == vres = Ret(FALSE, msg)
Invalid == vres.ret = "return" /\ ~vres.ok

\* the key is missing, or holds None or the empty string
MissingOrEmpty(qq, key) == ~Has(qq, key) \/ qq.v[key] \in {None, PyStr("")}
\* a non-empty string under the key
Present(qq, key) == Has(qq, key) /\ qq.v[key].k = "str" /\ qq.v[key].v # ""
\* the explanation is text (or there is none), as the data model types it
ExplanationIsText(qq) == ~Has(qq, "explanation") \/ qq.v["explanation"].k \in {"str", "none"}
Blank(s) == \A i \in 1..Len(s) : SubSeq(s, i, i) = " "
NoExplanationText(qq) ==
    ~Has(qq, "explanation") \/ qq.v["explanation"] = None
    \/ (qq.v["explanation"].k = "str" /\ Blank(qq.v["explanation"].v))
NoExplanationImage(qq) == MissingOrEmpty(qq, "explanation_image")
BasePresent(qq) == Present(qq, "id") /\ Present(qq, "type") /\ Present(qq, "question")
\* base fields and an explanation present, type t
WithBase(qq, t) ==
    /\ BasePresent(qq) /\ qq.v["type"] = PyStr(t)
    /\ ExplanationIsText(qq)
    /\ ~(NoExplanationText(qq) /\ NoExplanationImage(qq))

\* a Python integer: isinstance(x, int) holds of ints and of the bools True (1), False (0)
PyInteger(x) == x.k = "int" \/ x.k = "bool"
Num(x) == IF x.k = "bool" THEN (IF x.v THEN 1 ELSE 0) ELSE x.v
IsIntegerList(c) == c.k = "list" /\ \A i \in 1..Len(c.v) : PyInteger(c.v[i])
\* c is a list of integers in which each of 0..n-1 occurs exactly once
IsPermutation(c, n) ==
    /\ IsIntegerList(c)
    /\ Len(c.v) = n
    /\ \A j \in 0..(n - 1) : Cardinality({i \in 1..Len(c.v) : Num(c.v[i]) = j}) = 1
IsListOfAtLeast2(x) == x.k = "list" /\ Len(x.v) >= 2

(***************************************************************************)
(* C1: a sort question with id, type, question and an explanation, whose   *)
(* items is a list of n >= 2 entries, is accepted with (True, 'OK') if and *)
(* only if correct is a list of integers that is a permutation of 0..n-1;  *)
(* every other correct (wrong length, a value out of range, a repeated     *)
(* value, not a list of integers) is rejected.                             *)
(***************************************************************************)
SortCase == WithBase(q, "sort") /\ IsListOfAtLeast2(Get(q, "items"))
C1_SortAcceptsExactlyPermutations ==
    (Validated /\ SortCase) =>
        /\ (vres = OK) <=> IsPermutation(Get(q, "correct"), Len(Get(q, "items").v))
        /\ (vres # OK) => Invalid
C1_Witness ==
    /\ Validated /\ SortCase /\ vres = OK
    /\ Get(q, "correct") = PyList(<<PyInt(2), PyInt(0), PyInt(1)>>)

(***************************************************************************)
(* C2: validate_question returns a (bool, reason) value for every question *)
(* record and never raises.                                                *)
(***************************************************************************)
C2_NeverRaises == Validated => vres.ret = "return"

(***************************************************************************)
(* C3: when id, type or question is missing or empty, the verdict is       *)
(* (False, 'Missing field: <k>') with k the first such field in the order  *)
(* id, type, question, whatever the rest of the record holds.              *)
(***************************************************************************)
C3_FirstMissingField ==
    Validated =>
        /\ MissingOrEmpty(q, "id") => Rejected("Missing field: id")
        /\ (~MissingOrEmpty(q, "id") /\ Truthy(Get(q, "id")) /\ MissingOrEmpty(q, "type"))
              => Rejected("Missing field: type")
        /\ (~MissingOrEmpty(q, "id") /\ Truthy(Get(q, "id"))
            /\ ~MissingOrEmpty(q, "type") /\ Truthy(Get(q, "type"))
            /\ MissingOrEmpty(q, "question"))
              => Rejected("Missing field: question")
C3_Witness ==
    /\ Validated /\ Present(q, "id") /\ MissingOrEmpty(q, "type")
    /\ MissingOrEmpty(q, "question") /\ Get(q, "explanation") = PyInt(5)
    /\ Rejected("Missing field: type")

(***************************************************************************)
(* C4: with id, type and question present, a question whose explanation    *)
(* text is absent, empty or blank and whose explanation_image is absent or *)
(* empty is rejected with the 'Provide either explanation text ...' reason;*)
(* when one of the two is present and non-empty the explanation check does *)
(* not reject it.                                                          *)
(***************************************************************************)
ProvideExplanation == "Provide either explanation text or explanation_image (or both)"
C4_ExplanationOrImage ==
    (Validated /\ BasePresent(q) /\ ExplanationIsText(q)) =>
        IF NoExplanationText(q) /\ NoExplanationImage(q)
        THEN Rejected(ProvideExplanation)
        ELSE ~Rejected(ProvideExplanation)
C4_Witness ==
    /\ Validated /\ BasePresent(q) /\ Get(q, "explanation") = PyStr("  ")
    /\ Get(q, "explanation_image") = PyStr("") /\ Rejected(ProvideExplanation)

(***************************************************************************)
(* C5: an mc_multi question with base fields, an explanation and at least  *)
(* two options is accepted when every element of correct[] is an integer   *)
(* in [0, len(options)), the empty list and repeated indices included; a   *)
(* correct[] of integers with an element < 0 or >= len(options) is         *)
(* rejected with 'mc_multi: correct indices out of range'.                 *)
(***************************************************************************)
McMultiCase == WithBase(q, "mc_multi") /\ IsListOfAtLeast2(Get(q, "options"))
InRange(x, n) == 0 <= Num(x) /\ Num(x) < n
C5_McMultiIndices ==
    (Validated /\ McMultiCase /\ IsIntegerList(Get(q, "correct"))) =>
        LET c == Get(q, "correct").v
            n == Len(Get(q, "options").v)
        IN IF \A i \in 1..Len(c) : InRange(c[i], n)
           THEN vres = OK
           ELSE Rejected("mc_multi: correct indices out of range")
C5_Witness ==
    /\ Validated /\ McMultiCase /\ vres = OK
    /\ Get(q, "correct") = PyList(<<PyInt(1), PyInt(1)>>)

(***************************************************************************)
(* C6 as stated: a connect_nodes question (base fields and explanation     *)
(* present) whose correctPairs holds two entries with the same leftId is   *)
(* rejected with the one-to-one-violation reason.                          *)
(***************************************************************************)
OneToOneViolated == "connect_nodes: one-to-one mapping violated (duplicate left or right)"
IsPairEntry(pr) == pr.k = "dict" /\ Has(pr, "leftId") /\ Has(pr, "rightId")
\* two entries of correctPairs share a leftId
SharesLeftId(qq) ==
    LET ps == Get(qq, "correctPairs")
    IN /\ ps.k = "list"
       /\ \E i, j \in 1..Len(ps.v) :
             /\ i < j
             /\ ps.v[i].k = "dict" /\ Has(ps.v[i], "leftId")
             /\ ps.v[j].k = "dict" /\ Has(ps.v[j], "leftId")
             /\ ps.v[i].v["leftId"] = ps.v[j].v["leftId"]
ConnectCase == WithBase(q, "connect_nodes")
C6_SharedLeftIdGivesOneToOneReason ==
    (Validated /\ ConnectCase /\ SharesLeftId(q)) => Rejected(OneToOneViolated)

(***************************************************************************)
(* C6 amended: such a question is always rejected; the reason is the       *)
(* one-to-one-violation reason when leftNodes and rightNodes are lists of  *)
(* nodes with ids unique per side and every entry of correctPairs is a     *)
(* {leftId, rightId} pair naming a left and a right node.  Otherwise an    *)
(* earlier check gives the reason.                                         *)
(***************************************************************************)
IdsOf(nodes) == {Get(nodes.v[i], "id") : i \in 1..Len(nodes.v)}
NodesWithUniqueIds(nodes) ==
    /\ nodes.k = "list"
    /\ \A i \in 1..Len(nodes.v) : nodes.v[i].k = "dict" /\ Has(nodes.v[i], "id")
                                  /\ nodes.v[i].v["id"].k = "str"
    /\ \A i, j \in 1..Len(nodes.v) : i # j => nodes.v[i].v["id"] # nodes.v[j].v["id"]
PairsNameNodes(qq) ==
    LET ps == Get(qq, "correctPairs")
    IN /\ ps.k = "list"
       /\ \A i \in 1..Len(ps.v) :
             /\ IsPairEntry(ps.v[i])
             /\ ps.v[i].v["leftId"] \in IdsOf(Get(qq, "leftNodes"))
             /\ ps.v[i].v["rightId"] \in IdsOf(Get(qq, "rightNodes"))
C6_SharedLeftIdRejected ==
    (Validated /\ ConnectCase /\ SharesLeftId(q)) =>
        /\ Invalid
        /\ (/\ NodesWithUniqueIds(Get(q, "leftNodes"))
            /\ NodesWithUniqueIds(Get(q, "rightNodes"))
            /\ PairsNameNodes(q)) => Rejected(OneToOneViolated)
C6_Witness ==
    /\ Validated /\ ConnectCase /\ SharesLeftId(q) /\ Rejected(OneToOneViolated)
    /\ Get(q, "correctPairs") = PyList(<<Pair(PyStr("l1"), PyStr("r1")),
                                          Pair(PyStr("l1"), PyStr("r2"))>>)

(***************************************************************************)
(* C7: an accepted question's answer data references only its own payload. *)
(* mc_single: correct is an integer index into at least two options;       *)
(* mc_multi: every correct index is in [0, len(options)); sort: correct is *)
(* a permutation of 0..len(items)-1; connect_nodes: node ids are unique    *)
(* per side, every pair's leftId names a left node and its rightId a right *)
(* node, and no leftId or rightId occurs in two pairs.  Ids are taken in   *)
(* their string form, in which the documents of the data model hold them.  *)
(***************************************************************************)
HasType(qq, t) == Get(qq, "type") = PyStr(t)
\* the ids of the nodes of a side that carry one, in order
RECURSIVE IdList(_)
IdList(nodes) ==
    IF nodes = <<>> THEN <<>>
    ELSE (IF Head(nodes).k = "dict" /\ Has(Head(nodes), "id")
          THEN <<Str(Head(nodes).v["id"])>> ELSE <<>>) \o IdList(Tail(nodes))
Distinct(s) == \A i, j \in 1..Len(s) : i # j => s[i] # s[j]
SoundConnect(qq) ==
    LET left == Or(Get(qq, "leftNodes"), PyList(<<>>))
        right == Or(Get(qq, "rightNodes"), PyList(<<>>))
        ps == Or(Get(qq, "correctPairs"), PyList(<<>>))
    IN /\ left.k = "list" /\ right.k = "list" /\ ps.k = "list"
       /\ Distinct(IdList(left.v)) /\ Distinct(IdList(right.v))
       /\ \A i \in 1..Len(ps.v) :
             /\ IsPairEntry(ps.v[i])
             /\ \E a \in 1..Len(IdList(left.v)) :
                   IdList(left.v)[a] = Str(ps.v[i].v["leftId"])
             /\ \E b \in 1..Len(IdList(right.v)) :
                   IdList(right.v)[b] = Str(ps.v[i].v["rightId"])
       /\ \A i, j \in 1..Len(ps.v) :
             i # j => /\ Str(ps.v[i].v["leftId"]) # Str(ps.v[j].v["leftId"])
                      /\ Str(ps.v[i].v["rightId"]) # Str(ps.v[j].v["rightId"])
Normalized == nres.ret # "none"
Returned == nres.ret = "return"
OutLeft == nres.val.v["leftNodes"].v
OutRight == nres.val.v["rightNodes"].v
OutPairs == nres.val.v["correctPairs"].v

IsStr(x) == x.k = "str"
IsCanonicalNode(n) ==
    n.k = "dict" /\ DOMAIN n.v = {"id", "label"} /\ IsStr(n.v["id"]) /\ IsStr(n.v["label"])
IsCanonicalPair(pr) ==
    pr.k = "dict" /\ DOMAIN pr.v = {"leftId", "rightId"}
    /\ IsStr(pr.v["leftId"]) /\ IsStr(pr.v["rightId"])
CanonicalSide(nodes) ==
    /\ nodes.k = "list"
    /\ \A i \in 1..Len(nodes.v) : IsCanonicalNode(nodes.v[i])
    /\ \A i, j \in 1..Len(nodes.v) : i # j => nodes.v[i].v["id"] # nodes.v[j].v["id"]
NonEmptyIds(nodes) == \A i \in 1..Len(nodes.v) : nodes.v[i].v["id"].v # ""
\* leftNodes, rightNodes: {id: string, label: string} with ids unique per side;
\* correctPairs: {leftId, rightId}
IsCanonical(d) ==
    /\ d.k = "dict" /\ DOMAIN d.v = {"leftNodes", "rightNodes", "correctPairs"}
    /\ CanonicalSide(d.v["leftNodes"]) /\ CanonicalSide(d.v["rightNodes"])
    /\ d.v["correctPairs"].k = "list"
    /\ \A i \in 1..Len(d.v["correctPairs"].v) : IsCanonicalPair(d.v["correctPairs"].v[i])

(***************************************************************************)
(* C8 as stated: normalizing an already-canonical document (nodes          *)
(* {id: string, label: string} with ids unique per side, pairs             *)
(* {leftId, rightId}) returns a structurally identical document.           *)
(***************************************************************************)
C8_CanonicalUnchanged ==
    (Normalized /\ IsCanonical(raw)) => (Returned /\ nres.val = raw)

(***************************************************************************)
(* C8 amended: normalizing a canonical document whose node ids are all     *)
(* non-empty returns a structurally identical document: same nodes in the  *)
(* same order with the same ids and labels, same pairs in the same order.  *)
(* (A node with the empty id gets an id allocated.)                        *)
(***************************************************************************)
C8_CanonicalWithIdsUnchanged ==
    (/\ Normalized /\ IsCanonical(raw)
     /\ NonEmptyIds(raw.v["leftNodes"]) /\ NonEmptyIds(raw.v["rightNodes"]))
        => (Returned /\ nres.val = raw)
C8_Witness ==
    /\ Normalized /\ IsCanonical(raw) /\ Returned /\ nres.val = raw
    /\ raw.v["leftNodes"] = PyList(<<Node(PyStr("x"), " A "), Node(PyStr("l1"), "A")>>)
    /\ raw.v["rightNodes"] = PyList(<<Node(PyStr("r2"), "Y")>>)
    /\ raw.v["correctPairs"] = PyList(<<Pair(PyStr("x"), PyStr("r2"))>>)

(***************************************************************************)
(* C9 as stated: for leftNodes and rightNodes given as lists of n and m    *)
(* plain strings, the result has leftNodes l1..ln and rightNodes r1..rm    *)
(* labelled by the strings in input order, and each legacy pair            *)
(* {left: a, right: x} whose labels name a left and a right node becomes   *)
(* {leftId, rightId} of the nodes carrying those labels.                   *)
(***************************************************************************)
IsStringList(x) == x.k = "list" /\ \A i \in 1..Len(x.v) : IsStr(x.v[i])
IsLegacyPair(pr) ==
    pr.k = "dict" /\ DOMAIN pr.v = {"left", "right"} /\ IsStr(pr.v["left"]) /\ IsStr(pr.v["right"])
IsLegacy(d) ==
    /\ d.k = "dict" /\ DOMAIN d.v = {"leftNodes", "rightNodes", "correctPairs"}
    /\ IsStringList(d.v["leftNodes"]) /\ IsStringList(d.v["rightNodes"])
    /\ d.v["correctPairs"].k = "list"
    /\ \A i \in 1..Len(d.v["correctPairs"].v) : IsLegacyPair(d.v["correctPairs"].v[i])
\* the nodes prefix+1 .. prefix+n labelled by the strings, in order
NumberedNodes(strings, prefix) ==
    [i \in 1..Len(strings) |-> Node(PyStr(prefix \o ToString(i)), strings[i].v)]
\* some node of nodes has this id and this label
Carries(nodes, id, label) ==
    \E i \in 1..Len(nodes) : nodes[i].v["id"] = id /\ nodes[i].v["label"] = label
C9_LegacyConversion ==
    (Normalized /\ IsLegacy(raw)) =>
        /\ Returned
        /\ OutLeft = NumberedNodes(raw.v["leftNodes"].v, "l")
        /\ OutRight = NumberedNodes(raw.v["rightNodes"].v, "r")
        /\ \A i \in 1..Len(raw.v["correctPairs"].v) :
              LET pr == raw.v["correctPairs"].v[i]
              IN (/\ \E a \in 1..Len(raw.v["leftNodes"].v) : raw.v["leftNodes"].v[a] = pr.v["left"]
                  /\ \E b \in 1..Len(raw.v["rightNodes"].v) : raw.v["rightNodes"].v[b] = pr.v["right"])
                 => \E k \in 1..Len(OutPairs) :
                       /\ IsCanonicalPair(OutPairs[k])
                       /\ Carries(OutLeft, OutPairs[k].v["leftId"], pr.v["left"])
                       /\ Carries(OutRight, OutPairs[k].v["rightId"], pr.v["right"])

(***************************************************************************)
(* C9 amended: for leftNodes and rightNodes given as lists of n and m      *)
(* plain strings, the result has leftNodes l1..ln and rightNodes r1..rm    *)
(* labelled by the strings in input order; labels are matched after        *)
(* trimming surrounding whitespace, and each legacy pair                   *)
(* {left: a, right: x} whose trimmed labels equal the trimmed label of a   *)
(* left and of a right node becomes {leftId, rightId} of the last node of  *)
(* each side with that trimmed label.                                      *)
(***************************************************************************)
\* the positions of strings whose trimmed text is that of label
Named(strings, label) ==
    {i \in 1..Len(strings) : Strip(strings[i].v) = Strip(label.v)}
LastOf(S) == CHOOSE i \in S : \A j \in S : j <= i
C9_LegacyConversionTrimmed ==
    (Normalized /\ IsLegacy(raw)) =>
        LET ls == raw.v["leftNodes"].v
            rs == raw.v["rightNodes"].v
            ps == raw.v["correctPairs"].v
        IN /\ Returned
           /\ OutLeft = NumberedNodes(ls, "l")
           /\ OutRight = NumberedNodes(rs, "r")
           /\ \A i \in 1..Len(ps) :
                 (Named(ls, ps[i].v["left"]) # {} /\ Named(rs, ps[i].v["right"]) # {})
                 => \E k \in 1..Len(OutPairs) :
                       OutPairs[k] =
                           Pair(PyStr("l" \o ToString(LastOf(Named(ls, ps[i].v["left"])))),
                                PyStr("r" \o ToString(LastOf(Named(rs, ps[i].v["right"])))))
\* ['A','B'], ['X','Y'], [{left: 'A', right: 'X'}] yields the pair l1-r1
C9_Witness ==
    /\ Normalized /\ IsLegacy(raw)
    /\ raw = PyDict(Doc(<<PyStr("A"), PyStr("B")>>, <<PyStr("X"), PyStr("Y")>>,
                        <<LegacyPair("A", "X")>>))
    /\ nres = NormRet(PyDict(Doc(<<Node(PyStr("l1"), "A"), Node(PyStr("l2"), "B")>>,
                                 <<Node(PyStr("r1"), "X"), Node(PyStr("r2"), "Y")>>,
                                 <<Pair(PyStr("l1"), PyStr("r1"))>>)))

(***************************************************************************)
(* C10: the normalizer never throws, and for every raw question it         *)
(* returns a record {leftNodes, rightNodes, correctPairs} in which each    *)
(* absent or malformed field (a value that is not a sequence of strings or *)
(* of {id, label} objects) is the empty sequence.                          *)
(***************************************************************************)
IsNodeObject(n) == n.k = "dict" /\ Has(n, "id") /\ Has(n, "label")
WellFormedNodes(x) ==
    x.k = "list" /\ \A i \in 1..Len(x.v) : IsStr(x.v[i]) \/ IsNodeObject(x.v[i])
AbsentOrMalformed(d, f) ==
    d.k # "dict" \/ ~Has(d, f) \/ ~WellFormedNodes(d.v[f])
C10_NeverThrowsMalformedEmpty ==
    Normalized =>
        /\ Returned
        /\ nres.val.k = "dict"
        /\ DOMAIN nres.val.v = {"leftNodes", "rightNodes", "correctPairs"}
        /\ \A f \in {"leftNodes", "rightNodes"} :
              AbsentOrMalformed(raw, f) => nres.val.v[f] = PyList(<<>>)
        /\ (raw.k # "dict" \/ ~Has(raw, "correctPairs") \/ raw.v["correctPairs"].k # "list")
              => nres.val.v["correctPairs"] = PyList(<<>>)

(***************************************************************************)
(* C11: a legacy pair {left, right} contributes a pair to the output if    *)
(* and only if its left label resolves to a normalized left node and its   *)
(* right label to a normalized right node (labels compared trimmed, as the *)
(* lookup does); an unresolvable pair is dropped without error, the pairs  *)
(* that remain keep their input order, and a pair produced from a legacy   *)
(* pair references ids present in the returned node lists.                 *)
(***************************************************************************)
\* the node fields are lists (or absent) and correctPairs is a list
ListFields(d) ==
    /\ d.k = "dict" /\ Has(d, "correctPairs") /\ d.v["correctPairs"].k = "list"
    /\ \A f \in {"leftNodes", "rightNodes"} : Has(d, f) => d.v[f].k = "list"
HasIdPair(pr) == pr.k = "dict" /\ Has(pr, "leftId") /\ Has(pr, "rightId")
HasLabelPair(pr) == pr.k = "dict" /\ Has(pr, "left") /\ Has(pr, "right") /\ ~HasIdPair(pr)
\* the ids of the returned nodes whose trimmed label is the trimmed label x
Resolving(nodes, x) ==
    {nodes[i].v["id"] : i \in {j \in 1..Len(nodes) :
                                  Strip(nodes[j].v["label"].v) = Strip(Str(x))}}
Resolves(pr) ==
    Resolving(OutLeft, pr.v["left"]) # {} /\ Resolving(OutRight, pr.v["right"]) # {}
Contributes(pr) == HasIdPair(pr) \/ (HasLabelPair(pr) /\ Resolves(pr))
\* the place in the output of the input pair at position i
PlaceOf(ps, i) == Cardinality({j \in 1..i : Contributes(ps[j])})
C11_LegacyPairKeptIffResolved ==
    (Normalized /\ ListFields(raw)) =>
        LET ps == raw.v["correctPairs"].v
        IN /\ Returned
           /\ Len(OutPairs) = PlaceOf(ps, Len(ps))
           /\ \A i \in 1..Len(ps) :
                 (HasLabelPair(ps[i]) /\ Resolves(ps[i])) =>
                     LET out == OutPairs[PlaceOf(ps, i)]
                     IN /\ IsCanonicalPair(out)
                        /\ out.v["leftId"] \in Resolving(OutLeft, ps[i].v["left"])
                        /\ out.v["rightId"] \in Resolving(OutRight, ps[i].v["right"])
           /\ \A i \in 1..Len(ps) :
                 HasIdPair(ps[i]) =>
                     OutPairs[PlaceOf(ps, i)] =
                         Pair(PyStr(Str(ps[i].v["leftId"])), PyStr(Str(ps[i].v["rightId"])))
C11_Witness ==
    /\ Normalized /\ ListFields(raw)
    /\ raw.v["leftNodes"] = PyList(<<PyStr("A"), PyStr("B")>>)
    /\ raw.v["rightNodes"] = PyList(<<PyStr("X"), PyStr("Y")>>)
    /\ raw.v["correctPairs"] = PyList(<<LegacyPair("A", "Z"), LegacyPair(" A ", "X")>>)
    /\ OutPairs = <<Pair(PyStr("l1"), PyStr("r1"))>>

(***************************************************************************)
(* C12: save_topic_file writes the topic file only when a course and a     *)
(* topic are selected and validate_question accepts every question of the  *)
(* current topic; if any question fails, nothing is written (the file and  *)
(* the topic in memory are unchanged) and the error shown is that of the   *)
(* lowest-index failing question, with the validator's reason.             *)
(***************************************************************************)
Accepts(qq) == validate_question(qq) = Ret(TRUE, "OK")
Failing(questions) == {i \in 1..Len(questions) : ~Accepts(questions[i])}
LowestFailing(questions) ==
    CHOOSE i \in Failing(questions) : \A j \in Failing(questions) : i <= j
\* the error box for question number i (from 1) with the validator's reason
ReportedFailure(questions, i) ==
    Showed("error", "Validation Error",
           "Question #" \o ToString(i) \o " (" \o Str(Get(questions[i], "id")) \o "): "
           \o validate_question(questions[i]).msg)
SaveTopicFileStep == handler'.name = "save_topic_file"
PersistenceGate ==
    SaveTopicFileStep =>
        LET questions == current_topic.questions
        IN /\ (files' # files) =>
                 /\ Truthy(current_course) /\ Truthy(current_topic_relfile)
                 /\ Failing(questions) = {}
                 /\ files' = [files EXCEPT ![current_topic_relfile.v] = FileOf(current_topic)]
           /\ (Failing(questions) # {}) =>
                 /\ files' = files
                 /\ current_topic' = current_topic
                 /\ dialog' = ReportedFailure(questions, LowestFailing(questions))
C12_PersistenceGate == [][PersistenceGate]_vars

(***************************************************************************)
(* C13: save_question with a valid form: if a question is selected         *)
(* (selected_question_index = i), the question at position i is replaced,  *)
(* the number of questions and every other position are unchanged; if      *)
(* none is selected, the question is appended at the end and the existing  *)
(* questions keep their positions.  Ids are not checked for uniqueness.    *)
(***************************************************************************)
\* the step of a save_question whose form passed validation
SaveValidFormStep ==
    /\ handler' = Ran("save_question")
    /\ form' # None /\ Accepts(form')
\* stored is the form's question, but for the paths of its images
IsStoredForm(stored, fq) ==
    /\ stored.k = "dict" /\ DOMAIN stored.v = DOMAIN fq.v
    /\ \A key \in DOMAIN fq.v \ {"image", "explanation_image"} : stored.v[key] = fq.v[key]
AddOrUpdate ==
    SaveValidFormStep =>
        LET old == current_topic.questions
            new == current_topic'.questions
        IN IF selected_question_index # None
           THEN LET i == selected_question_index.v + 1
                IN /\ Len(new) = Len(old)
                   /\ IsStoredForm(new[i], form')
                   /\ \A j \in 1..Len(old) : j # i => new[j] = old[j]
           ELSE /\ Len(new) = Len(old) + 1
                /\ IsStoredForm(new[Len(new)], form')
                /\ \A j \in 1..Len(old) : new[j] = old[j]
C13_AddOrUpdate == [][AddOrUpdate]_vars
\* the second question of the file replaced by one with the id of no other,
\* then the same form saved once more with nothing selected
C13_Witness ==
    /\ handler = Ran("save_question") /\ form # None /\ Accepts(form)
    /\ Len(current_topic.questions) = 2
    /\ current_topic.questions[1] = FileAccepted
    /\ IsStoredForm(current_topic.questions[2], form)

(***************************************************************************)
(* C14: fill_table, base fields and explanation present: the question is   *)
(* accepted whenever table.answers is a sequence whose elements are all    *)
(* sequences (rows of any widths), and rejected with reason 'fill_table    *)
(* requires table.answers as 2D array' whenever table or table.answers is  *)
(* missing or table.answers is not a sequence of sequences.                *)
(***************************************************************************)
FillTableReason == "fill_table requires table.answers as 2D array"
\* q has a table with answers, a sequence whose elements are all sequences
AnswersIs2D(qq) ==
    /\ Has(qq, "table") /\ qq.v["table"].k = "dict" /\ Has(qq.v["table"], "answers")
    /\ LET ans == qq.v["table"].v["answers"]
       IN ans.k = "list" /\ \A i \in 1..Len(ans.v) : ans.v[i].k = "list"
C14_FillTable ==
    (Validated /\ WithBase(q, "fill_table")) =>
        IF AnswersIs2D(q) THEN vres = OK ELSE Rejected(FillTableReason)

(***************************************************************************)
(* C15: true_false, base fields and explanation present: (True, 'OK') is   *)
(* returned if and only if 'correct' is present and is a boolean; a        *)
(* missing or non-boolean correct is rejected with reason                  *)
(* 'true_false requires boolean "correct"'.                                *)
(***************************************************************************)
CorrectIsBoolean(qq) == Has(qq, "correct") /\ qq.v["correct"] \in {PyBool(TRUE), PyBool(FALSE)}
C15_TrueFalse ==
    (Validated /\ WithBase(q, "true_false")) =>
        IF CorrectIsBoolean(q) THEN vres = Ret(TRUE, "OK")
        ELSE Rejected("true_false requires boolean \"correct\"")
C15_Witness ==
    /\ Validated /\ WithBase(q, "true_false")
    /\ Has(q, "correct") /\ q.v["correct"] = PyStr("true")
    /\ Rejected("true_false requires boolean \"correct\"")

(***************************************************************************)
(* C16: a question with base fields and explanation present whose type is  *)
(* not one of the seven supported types is never accepted: it is rejected  *)
(* with reason 'Unknown type: <type value>'.                               *)
(***************************************************************************)
UnknownTypeCase(qq) ==
    /\ Present(qq, "id") /\ Present(qq, "question")
    /\ Has(qq, "type") /\ Truthy(qq.v["type"])
    /\ qq.v["type"] \notin {PyStr(t) : t \in TypeNames}
    /\ ExplanationIsText(qq)
    /\ ~(NoExplanationText(qq) /\ NoExplanationImage(qq))
C16_UnknownTypeRejected ==
    (Validated /\ UnknownTypeCase(q)) =>
        Rejected("Unknown type: " \o (IF q.v["type"].k = "str" THEN q.v["type"].v
                                       ELSE ToString(q.v["type"].v)))
C16_Witness ==
    /\ Validated /\ UnknownTypeCase(q)
    /\ q.v["type"] = PyStr("essay")
    /\ vres = Ret(FALSE, "Unknown type: essay")

(***************************************************************************)
(* C17: verdict and reason agree: the reason is 'OK' if and only if the    *)
(* verdict is valid, and every invalid verdict carries a non-empty reason  *)
(* other than 'OK'.                                                        *)
(***************************************************************************)
C17_VerdictAndReasonAgree ==
    (vres.ret = "return") =>
        /\ (vres.msg = "OK") <=> vres.ok
        /\ ~vres.ok => (vres.msg # "" /\ vres.msg # "OK")
C17_Witness ==
    /\ vres = Ret(TRUE, "OK")
    /\ HasType(q, "fill_text")
    /\ Has(q, "answers") /\ q.v["answers"] = PyList(<<PyStr("1")>>)

(***************************************************************************)
(* C19 as stated: for every input node list (strings, objects with or      *)
(* without ids, or a mix, ids repeated or equal to a generated id) the     *)
(* returned ids are pairwise distinct within each side, there is exactly   *)
(* one node per input item in input order, and an object's id is kept      *)
(* verbatim unless it equals an id already assigned to an earlier node of  *)
(* the same list.                                                          *)
(***************************************************************************)
Sides == {"leftNodes", "rightNodes"}
IsNodeList(d, f) == d.k = "dict" /\ Has(d, f) /\ d.v[f].k = "list"
OutIds(f) == [i \in 1..Len(nres.val.v[f].v) |-> nres.val.v[f].v[i].v["id"]]
\* the label the item at position i gives its node, where the item has one
LabelInOrder(item, node) ==
    /\ IsStr(item) => node.v["label"] = item
    /\ (item.k = "dict" /\ Has(item, "label") /\ IsStr(item.v["label"]))
          => node.v["label"] = item.v["label"]
OneNodePerItem(f) ==
    LET items == raw.v[f].v
        out == nres.val.v[f].v
    IN /\ Len(out) = Len(items)
       /\ Distinct(OutIds(f))
       /\ \A i \in 1..Len(items) : IsCanonicalNode(out[i]) /\ LabelInOrder(items[i], out[i])
\* the id of the item at position i is the id of the node at position i,
\* unless an earlier node of the list has it
IdKept(f, i) ==
    LET id == PyStr(Str(raw.v[f].v[i].v["id"]))
    IN OutIds(f)[i] = id \/ \E j \in 1..(i - 1) : OutIds(f)[j] = id
HasId(item) == item.k = "dict" /\ Has(item, "id") /\ item.v["id"].k # "none"
C19_IdsDistinctAndKept ==
    (Normalized /\ Returned) =>
        \A f \in Sides :
            IsNodeList(raw, f) =>
                /\ OneNodePerItem(f)
                /\ \A i \in 1..Len(raw.v[f].v) : HasId(raw.v[f].v[i]) => IdKept(f, i)

(***************************************************************************)
(* C19 amended: the returned ids are pairwise distinct within each side,   *)
(* there is exactly one node per input item in input order, and an         *)
(* object's id is kept (a string verbatim, another value in its string     *)
(* form) unless it is empty or equals an id already assigned to an earlier *)
(* node of the same list.                                                  *)
(***************************************************************************)
HasNonEmptyId(item) == item.k = "dict" /\ Has(item, "id") /\ Truthy(item.v["id"])
C19_IdsDistinctAndNonEmptyKept ==
    (Normalized /\ Returned) =>
        \A f \in Sides :
            IsNodeList(raw, f) =>
                /\ OneNodePerItem(f)
                /\ \A i \in 1..Len(raw.v[f].v) :
                      HasNonEmptyId(raw.v[f].v[i]) => IdKept(f, i)
\* a string, then an object whose id is the one generated for the string
C19_Witness ==
    /\ Returned /\ IsNodeList(raw, "leftNodes")
    /\ raw.v["leftNodes"] = PyList(<<PyStr("A"), Node(PyStr("l1"), "B")>>)
    /\ OutLeft = <<Node(PyStr("l1"), "A"), Node(PyStr("l3"), "B")>>

(***************************************************************************)
(* C18: _cn_next_id(side) returns prefix+n ('l' for left, 'r' for right)   *)
(* for the smallest n >= 1 such that prefix+n is not among the ids of that *)
(* side; the result is never an id of that side, the call changes no       *)
(* state, and the result is determined by the side and the ids.            *)
(***************************************************************************)
\* id is prefix+n for the smallest n >= 1 with prefix+n outside existing
SmallestFree(id, prefix, existing) ==
    \E n \in 1..(Cardinality(existing) + 1) :
        /\ id = prefix \o ToString(n)
        /\ id \notin existing
        /\ \A m \in 1..(n - 1) : (prefix \o ToString(m)) \in existing
NextIdIsSmallestFree ==
    (next_id # NoCall) =>
        /\ next_id.existing = ExistingIds(SideNodes(next_id.side))
        /\ SmallestFree(next_id.result, SidePrefix(next_id.side), next_id.existing)
        /\ next_id.result \notin ExistingIds(SideNodes(next_id.side))
NextIdChangesNothing ==
    (next_id' # next_id) =>
        UNCHANGED <<cn_left, cn_right, cn_pairs, cn_left_sel, cn_right_sel>>
C18_NextIdSmallestFree == []NextIdIsSmallestFree /\ [][NextIdChangesNothing]_vars
C18_Witness ==
    /\ next_id.side = "left"
    /\ next_id.existing = {"l1", "l3"}
    /\ next_id.result = "l2"

(***************************************************************************)
(* C20: in the connect_nodes editor, after any sequence of add-node,       *)
(* delete-node, add-pair and remove-pair actions from an empty question    *)
(* (the pair selectors keeping their last chosen value), node ids are      *)
(* unique per side, every pair names a left and a right node that exist,   *)
(* and no leftId or rightId occurs in two pairs.                           *)
(***************************************************************************)
CnIdsUnique(nodes) == \A i, j \in 1..Len(nodes) : i # j => nodes[i].id # nodes[j].id
CnPairsReferNodes ==
    \A i \in 1..Len(cn_pairs) :
        cn_pairs[i].leftId \in ExistingIds(cn_left) /\ cn_pairs[i].rightId \in ExistingIds(cn_right)
CnOneToOne ==
    \A i, j \in 1..Len(cn_pairs) :
        i # j => (cn_pairs[i].leftId # cn_pairs[j].leftId
                  /\ cn_pairs[i].rightId # cn_pairs[j].rightId)
C20_EditorStateWellFormed ==
    CnIdsUnique(cn_left) /\ CnIdsUnique(cn_right) /\ CnPairsReferNodes /\ CnOneToOne

(***************************************************************************)
(* C21: a save_question that appends (valid form, no question selected)    *)
(* leaves selected_question_index at the position of the question it       *)
(* appended, so that saving the same form once more replaces that question *)
(* instead of appending a second copy.                                     *)
(***************************************************************************)
\* the step of a save_question that appended the form's question
AppendingSaveStep ==
    /\ SaveValidFormStep
    /\ selected_question_index = None
    /\ Len(current_topic'.questions) = Len(current_topic.questions) + 1
AppendSelectsAppended ==
    AppendingSaveStep =>
        selected_question_index' = PyInt(Len(current_topic'.questions) - 1)
C21_AppendSelectsAppended == [][AppendSelectsAppended]_vars

(***************************************************************************)
(* C22: in every state of an editor session, selected_question_index is    *)
(* None or an index of the current topic's question list: 0 <= index <     *)
(* number of questions.                                                    *)
(***************************************************************************)
IsValidIndex(index, questions) ==
    /\ IsInstanceInt(index)
    /\ 0 <= index.v /\ index.v < Len(questions)
SaveQuestionStep == handler'.name = "save_question" /\ form' # None
\* the position (from 1) save_question stores at
StoredAt ==
    IF selected_question_index # None THEN selected_question_index.v + 1
    ELSE Len(current_topic'.questions)
OnlyValidatedAdmitted ==
    SaveQuestionStep =>
        IF ~Accepts(form')
        THEN /\ current_topic'.questions = current_topic.questions
             /\ selected_question_index' = selected_question_index
        ELSE /\ handler' = Ran("save_question")
             /\ StoredAt \in 1..Len(current_topic'.questions)
             /\ IsStoredForm(current_topic'.questions[StoredAt], form')
             /\ Accepts(current_topic'.questions[StoredAt])
C23_OnlyValidatedAdmitted == [][OnlyValidatedAdmitted]_vars
\* a question whose only explanation is an image, stored with the path of
\* the copy in the course
C23_Witness ==
    /\ handler = Ran("save_question") /\ form # None /\ Accepts(form)
    /\ Get(form, "explanation") = PyStr("")
    /\ Get(form, "explanation_image") = PyStr("/p/e.png")
    /\ \E i \in 1..Len(current_topic.questions) :
          /\ IsStoredForm(current_topic.questions[i], form)
          /\ Get(current_topic.questions[i], "explanation_image") = PyStr("t1/e.png")
          /\ Accepts(current_topic.questions[i])

(***************************************************************************)
(* C24: _normalize_connect_nodes is idempotent on the inputs it accepts:   *)
(* for every raw connect_nodes question (legacy, canonical or mixed) it    *)
(* returns on, normalizing the result once more returns the same result.   *)
(***************************************************************************)
C24_NormalizeIdempotent ==
    Returned => normalize_connect_nodes(nres.val) = nres
\* a legacy question, changed by the first normalization and not by the second
C24_Witness ==
    /\ Returned /\ IsLegacy(raw)
    /\ nres.val # raw
    /\ Len(OutLeft) = 2 /\ Len(OutRight) = 2 /\ Len(OutPairs) = 2
    /\ normalize_connect_nodes(nres.val) = nres

====
